---- MODULE Spec2Model ----
(***************************************************************************)
(* Model of the Hummock event handler (hummock_event_handler.rs): the     *)
(* single-consumer event loop that owns the shared buffer (local          *)
(* version), the upload handle manager, the pending sync requests, the    *)
(* pinned version and the per-instance read versions.                     *)
(*                                                                         *)
(* Collaborators whose source is not part of the files at hand            *)
(* (LocalVersion, UploadHandleManager, PinnedVersion, HummockReadVersion, *)
(* the state store's ingest/get and the upload tasks) are modelled from   *)
(* the written specification and from what the tests observe.             *)
(***************************************************************************)
EXTENDS Integers, Sequences, FiniteSets, TLC

(***************************************************************************)
(* Bounds of the model.                                                    *)
(***************************************************************************)
MaxEpoch == 2
MaxImm == 2
MaxReq == 2
MaxVersion == 3
\* width of the words of the model's usize arithmetic
UsizeBits == 16
\* largest capacity, usage and upload size of a BufferTracker taken on its own
MaxBytes == 6

\* BufferTracker::from_storage_config: capacity (scaled down from MiB to units).
Capacity == 4
\* size in units of every ingested batch
BatchSize == 2

Epochs == 1..MaxEpoch
Keys == {1, 2}
TableIds == {1, 2}
InstanceIds == {1, 2}
ImmIds == 1..MaxImm
ReqIds == 1..MaxReq

\* The initial pinned version (prepare_first_valid_version): id 1, nothing committed.
InitialVersion == [id |-> 1, max_committed_epoch |-> 0, data |-> {}]

\* Upload tasks: a flush task per memtable, a sync task per sync epoch.
FlushTask(i) == <<"flush", i>>
SyncTask(e) == <<"sync", e>>
TaskIds == {FlushTask(i) : i \in ImmIds} \cup {SyncTask(e) : e \in Epochs}

VARIABLES
    pc,                       \* position of the event loop: run, handling, clearing,
                              \* shutdown, panic
    handling,                 \* the event being handled step by step, with the guards held
    probe,                    \* a BufferTracker on its own: its configuration, the loads
                              \* of its counters and the answer of need_more_flush
    imms,                     \* the immutable memtables created so far (ingest order)
    in_channel,               \* memtables whose ImmToUploader event is still in hummock_event_rx
    shared_buffer,            \* LocalVersion: unsynced memtables (ids)
    sync_uncommitted_data,    \* LocalVersion: sync epoch -> SyncRecord
    max_sync_epoch,           \* LocalVersion
    uploading,                \* memtables a running flush task is uploading
    uploaded,                 \* memtables of the local version already turned into SSTs
    tasks,                    \* spawned upload tasks: id -> none, running, ok, err
    upload_handle_manager,    \* epoch -> set of task handles attached to it
    clear_handles,            \* handles drained by handle_clear and being awaited
    pending_sync_requests,    \* epoch -> request id (0: none)
    requests,                 \* SyncEpoch requests processed: epoch and replies received
    read_version_mapping,     \* table -> instance -> read version
    pinned_version,           \* the handler's pinned version
    version_update_notifier,  \* the watch channel: its value and its version
    seal_epoch,               \* the AtomicU64 exposed by sealed_epoch()
    global_upload_task_size,  \* BufferTracker's atomic counter
    meta                      \* metadata service: the versions it has produced (index = id)

vars == <<pc, handling, probe, imms, in_channel, shared_buffer, sync_uncommitted_data, max_sync_epoch,
          uploading, uploaded, tasks, upload_handle_manager, clear_handles,
          pending_sync_requests, requests, read_version_mapping, pinned_version,
          version_update_notifier, seal_epoch, global_upload_task_size, meta>>

(***************************************************************************)
(* Helpers.                                                                *)
(***************************************************************************)
Max(S, d) == IF S = {} THEN d ELSE CHOOSE x \in S : \A y \in S : y <= x
Min(S, d) == IF S = {} THEN d ELSE CHOOSE x \in S : \A y \in S : x <= y

Created == 1..Len(imms)

NoRecord == [stage |-> "None", imms |-> {}, ssts |-> {}, size |-> 0]
NoReadVersion == [registered |-> FALSE, committed |-> InitialVersion, staging |-> {}]
NoTable == [present |-> FALSE, instances |-> [i \in InstanceIds |-> NoReadVersion]]

SyncEpochs == {e \in Epochs : sync_uncommitted_data[e].stage # "None"}

\* Every read version of the mapping, as (table, instance) pairs.
Registered ==
    {ti \in TableIds \X InstanceIds :
        /\ read_version_mapping[ti[1]].present
        /\ read_version_mapping[ti[1]].instances[ti[2]].registered}

ReadVersion(t, i) == read_version_mapping[t].instances[i]

Staged == UNION {ReadVersion(ti[1], ti[2]).staging : ti \in Registered}

\* Memtables the local version still holds as memtables (not yet SSTs).
LocalImms ==
    (shared_buffer \cup UNION {sync_uncommitted_data[e].imms : e \in Epochs}) \ uploaded

(***************************************************************************)
(* MemoryLimiter and BufferTracker.                                        *)
(***************************************************************************)
\* A memtable's reservation is released when its last holder drops it: the event
\* in the channel, the local version (until it is uploaded) and the staging of
\* the read versions share the same batch.
LiveImms == in_channel \cup LocalImms \cup Staged

\* The bytes reserved by a set of memtables: each batch reserves BatchSize.
RECURSIVE ReservedBytes(_)
ReservedBytes(S) ==
    IF S = {} THEN 0
    ELSE LET x == CHOOSE y \in S : TRUE IN BatchSize + ReservedBytes(S \ {x})

get_buffer_size == ReservedBytes(LiveImms)

\* usize arithmetic wraps around; the model's words are UsizeBits wide.
Usize(x) == x % 2^UsizeBits

\* BufferTracker::from_storage_config: flush_threshold = capacity * 4 / 5.
flush_threshold_of(capacity) == Usize(capacity * 4) \div 5

flush_threshold == flush_threshold_of(Capacity)

\* A need_more_flush that subtracts the upload size from the usage.
need_more_flush_at_subtracting(threshold, size, upload) == Usize(size - upload) > threshold

\* BufferTracker::need_more_flush on given loads of the two counters.
need_more_flush_at(threshold, size, upload) == size > Usize(threshold + upload)

\* A need_more_flush that forgets the size of the upload tasks in flight.
need_more_flush_of_buffer_only(size, upload) == size > flush_threshold

need_more_flush_of(size, upload) == need_more_flush_at(flush_threshold, size, upload)

need_more_flush == need_more_flush_of(get_buffer_size, global_upload_task_size)

\* tokio::sync::watch::channel(init): the value, and the version that the
\* receivers compare to see a change.
WatchChannel(init) == [state |-> init, version |-> 0]

\* The loop is between two events: it handles none and holds no guard.
NoHandling ==
    [event |-> "None", table_id |-> 0, instance_id |-> 0, prev_max_committed_epoch |-> 0,
     read_versions |-> {}, read_version_mapping_guard |-> "none", read_version_guard |-> {}]

\* A BufferTracker taken on its own, before need_more_flush is called.
Probe(capacity, usage, upload) ==
    [flush_threshold |-> flush_threshold_of(capacity),
     capacity |-> capacity,
     global_buffer |-> usage,
     global_upload_task_size |-> upload,
     called |-> FALSE,
     need_more_flush |-> FALSE]

HandlerInit ==
    /\ pc = "run"
    /\ handling = NoHandling
    /\ imms = <<>>
    /\ in_channel = {}
    /\ shared_buffer = {}
    /\ sync_uncommitted_data = [e \in Epochs |-> NoRecord]
    /\ max_sync_epoch = InitialVersion.max_committed_epoch
    /\ uploading = {}
    /\ uploaded = {}
    /\ tasks = [t \in TaskIds |-> "none"]
    /\ upload_handle_manager = [e \in Epochs |-> {}]
    /\ clear_handles = {}
    /\ pending_sync_requests = [e \in Epochs |-> 0]
    /\ requests = <<>>
    /\ read_version_mapping = [t \in TableIds |-> NoTable]
    /\ pinned_version = InitialVersion
    /\ version_update_notifier = WatchChannel(InitialVersion.max_committed_epoch)
    /\ seal_epoch = InitialVersion.max_committed_epoch
    /\ global_upload_task_size = 0
    /\ meta = <<InitialVersion>>

Init == HandlerInit /\ probe = Probe(Capacity, 0, 0)

\* A BufferTracker of any capacity with any loads of its counters, the upload
\* size above the usage included.
InitTracker ==
    /\ HandlerInit
    /\ probe \in {Probe(capacity, usage, upload) :
                     capacity \in 0..MaxBytes, usage \in 0..MaxBytes, upload \in 0..MaxBytes}

\* need_more_flush is called on the tracker.
CallNeedMoreFlush ==
    /\ ~probe.called
    /\ probe' = [probe EXCEPT
                    !.called = TRUE,
                    !.need_more_flush =
                        need_more_flush_at(probe.flush_threshold, probe.global_buffer,
                                           probe.global_upload_task_size)]
    /\ UNCHANGED <<pc, handling, imms, in_channel, shared_buffer, sync_uncommitted_data,
                   max_sync_epoch, uploading, uploaded, tasks, upload_handle_manager,
                   clear_handles, pending_sync_requests, requests, read_version_mapping,
                   pinned_version, version_update_notifier, seal_epoch,
                   global_upload_task_size, meta>>

(***************************************************************************)
(* Replies on the one-shot channels of the SyncEpoch requests.             *)
(***************************************************************************)
ErrReply(kind) == [kind |-> kind, uncommitted_ssts |-> {}, sync_size |-> 0]
OkReply(ssts, size) == [kind |-> "ok", uncommitted_ssts |-> ssts, sync_size |-> size]

\* oneshot::Sender::send: the reply reaches the request's receiver, unless the
\* receiver was dropped: the send fails then, and the handler logs the error.
Deliver(reqs, r, reply) ==
    IF reqs[r].rx_dropped THEN reqs ELSE [reqs EXCEPT ![r].replies = Append(@, reply)]

\* send_sync_result: the pending sender of the epoch is removed and used.
send_sync_result_requests(reqs, pending, epoch, reply) ==
    Deliver(reqs, pending[epoch], reply)

\* A send_sync_result that uses the sender but leaves it in the map.
send_sync_result_pending_kept(pending, epoch) == pending

\* A send_sync_result that puts the sender back when the send fails.
send_sync_result_pending_kept_on_error(pending, epoch) ==
    IF pending[epoch] \in 1..Len(requests) /\ requests[pending[epoch]].rx_dropped
        THEN pending
        ELSE [pending EXCEPT ![epoch] = 0]

send_sync_result_pending(pending, epoch) == [pending EXCEPT ![epoch] = 0]

(***************************************************************************)
(* State store instance: ingest_batch.                                     *)
(***************************************************************************)
\* Epochs an instance may still write: not sealed, not synced, not committed,
\* and later than its previous batches (one batch per key and epoch).
WritableEpochs(key) ==
    {e \in Epochs :
        /\ e > seal_epoch
        /\ e > max_sync_epoch
        /\ e > pinned_version.max_committed_epoch
        /\ \A j \in Created : imms[j].key = key => imms[j].epoch < e}

\* The instance (t, i) builds a batch for its key, takes the reservation from the
\* limiter (failing fast when there is no capacity), pushes the memtable into its
\* own staging and sends ImmToUploader.
IngestBatch(t, i, e, del) ==
    /\ pc \in {"run", "clearing"}
    /\ <<t, i>> \in Registered
    /\ Len(imms) < MaxImm
    /\ e \in WritableEpochs(i)
    /\ get_buffer_size + BatchSize <= Capacity
    /\ imms' = Append(imms, [epoch |-> e, key |-> i, del |-> del])
    /\ in_channel' = in_channel \cup {Len(imms) + 1}
    /\ read_version_mapping' =
          [read_version_mapping EXCEPT ![t].instances[i].staging = @ \cup {Len(imms) + 1}]
    /\ UNCHANGED <<pc, shared_buffer, sync_uncommitted_data, max_sync_epoch, uploading,
                   uploaded, tasks, upload_handle_manager, clear_handles,
                   pending_sync_requests, requests, pinned_version,
                   version_update_notifier, seal_epoch, global_upload_task_size, meta>>
    /\ UNCHANGED <<handling, probe>>

(***************************************************************************)
(* Event loop: ImmToUploader.                                              *)
(***************************************************************************)
\* LocalVersionManager::write_shared_buffer_batch
write_shared_buffer_batch(buffer, imm) == buffer \cup {imm}

\* A loop that goes on taking the events queued behind a Shutdown.
handle_imm_to_uploader_after_shutdown ==
    /\ pc \in {"run", "shutdown"}
    /\ in_channel # {}
    /\ LET imm == Min(in_channel, 0) IN
          /\ in_channel' = in_channel \ {imm}
          /\ shared_buffer' = write_shared_buffer_batch(shared_buffer, imm)
    /\ UNCHANGED <<pc, imms, sync_uncommitted_data, max_sync_epoch, uploading, uploaded,
                   tasks, upload_handle_manager, clear_handles, pending_sync_requests,
                   requests, read_version_mapping, pinned_version,
                   version_update_notifier, seal_epoch, global_upload_task_size, meta>>
    /\ UNCHANGED <<handling, probe>>

\* A loop that goes on taking events while handle_clear awaits its handles.
handle_imm_to_uploader_while_clearing ==
    /\ pc \in {"run", "clearing"}
    /\ in_channel # {}
    /\ LET imm == Min(in_channel, 0) IN
          /\ in_channel' = in_channel \ {imm}
          /\ shared_buffer' = write_shared_buffer_batch(shared_buffer, imm)
    /\ UNCHANGED <<pc, imms, sync_uncommitted_data, max_sync_epoch, uploading, uploaded,
                   tasks, upload_handle_manager, clear_handles, pending_sync_requests,
                   requests, read_version_mapping, pinned_version,
                   version_update_notifier, seal_epoch, global_upload_task_size, meta>>
    /\ UNCHANGED <<handling, probe>>

handle_imm_to_uploader ==
    /\ pc = "run"
    /\ in_channel # {}
    /\ LET imm == Min(in_channel, 0) IN
          /\ in_channel' = in_channel \ {imm}
          /\ shared_buffer' = write_shared_buffer_batch(shared_buffer, imm)
    /\ UNCHANGED <<pc, imms, sync_uncommitted_data, max_sync_epoch, uploading, uploaded,
                   tasks, upload_handle_manager, clear_handles, pending_sync_requests,
                   requests, read_version_mapping, pinned_version,
                   version_update_notifier, seal_epoch, global_upload_task_size, meta>>
    /\ UNCHANGED <<handling, probe>>

(***************************************************************************)
(* Event loop: RegisterHummockInstance and DestroyHummockInstance.         *)
(***************************************************************************)
\* HummockReadVersion::new
NewReadVersion(version) == [registered |-> TRUE, committed |-> version, staging |-> {}]

\* A registration that builds the read version from the first version instead of
\* the handler's current pinned version.
RegisterHummockInstance_first_version(t, i) ==
    /\ pc = "run"
    /\ read_version_mapping' =
          [read_version_mapping EXCEPT
              ![t] = [present |-> TRUE,
                      instances |-> [@.instances EXCEPT ![i] = NewReadVersion(InitialVersion)]]]
    /\ UNCHANGED <<pc, imms, in_channel, shared_buffer, sync_uncommitted_data,
                   max_sync_epoch, uploading, uploaded, tasks, upload_handle_manager,
                   clear_handles, pending_sync_requests, requests, pinned_version,
                   version_update_notifier, seal_epoch, global_upload_task_size, meta>>
    /\ UNCHANGED <<handling, probe>>

RegisterHummockInstance(t, i) ==
    /\ pc = "run"
    /\ read_version_mapping' =
          [read_version_mapping EXCEPT
              ![t] = [present |-> TRUE,
                      instances |-> [@.instances EXCEPT ![i] = NewReadVersion(pinned_version)]]]
    /\ UNCHANGED <<pc, imms, in_channel, shared_buffer, sync_uncommitted_data,
                   max_sync_epoch, uploading, uploaded, tasks, upload_handle_manager,
                   clear_handles, pending_sync_requests, requests, pinned_version,
                   version_update_notifier, seal_epoch, global_upload_task_size, meta>>
    /\ UNCHANGED <<handling, probe>>

DestroyHummockInstance(t, i) ==
    /\ pc = "run"
    /\ IF read_version_mapping[t].present
          THEN /\ read_version_mapping' =
                     [read_version_mapping EXCEPT ![t].instances[i] = NoReadVersion]
               /\ pc' = pc
          ELSE /\ pc' = "panic"
               /\ UNCHANGED read_version_mapping
    /\ UNCHANGED <<imms, in_channel, shared_buffer, sync_uncommitted_data,
                   max_sync_epoch, uploading, uploaded, tasks, upload_handle_manager,
                   clear_handles, pending_sync_requests, requests, pinned_version,
                   version_update_notifier, seal_epoch, global_upload_task_size, meta>>
    /\ UNCHANGED <<handling, probe>>

(***************************************************************************)
(* Event loop: BufferMayFlush.                                             *)
(***************************************************************************)
\* Unsynced memtables that no flush task has taken yet.
Flushable(upl) == shared_buffer \ (upl \cup uploaded)

\* The oldest memtable of a set: smallest epoch, then earliest ingested.
Oldest(S) ==
    CHOOSE i \in S : \A j \in S : imms[i].epoch < imms[j].epoch
                               \/ (imms[i].epoch = imms[j].epoch /\ i <= j)

\* try_flush_shared_buffer: the memtables for which the loop issues a flush
\* task, given the memtables already being uploaded and the upload size.
RECURSIVE try_flush_shared_buffer(_, _)
try_flush_shared_buffer(upl, size) ==
    IF need_more_flush_of(get_buffer_size, size) /\ Flushable(upl) # {}
        THEN LET i == Oldest(Flushable(upl)) IN
                 {i} \cup try_flush_shared_buffer(upl \cup {i}, size + BatchSize)
        ELSE {}

\* UploadHandleManager::add_epoch_handle
add_epoch_handle(manager, epoch, handles) == [manager EXCEPT ![epoch] = @ \cup handles]

RECURSIVE add_flush_handles(_, _)
add_flush_handles(manager, picked) ==
    IF picked = {} THEN manager
    ELSE LET i == CHOOSE x \in picked : TRUE IN
             add_flush_handles(add_epoch_handle(manager, imms[i].epoch, {FlushTask(i)}),
                               picked \ {i})

HandleBufferMayFlush ==
    /\ pc = "run"
    /\ LET picked == try_flush_shared_buffer(uploading, global_upload_task_size) IN
          /\ uploading' = uploading \cup picked
          /\ global_upload_task_size' = global_upload_task_size + BatchSize * Cardinality(picked)
          /\ tasks' = [t \in TaskIds |->
                          IF \E i \in picked : t = FlushTask(i) THEN "running" ELSE tasks[t]]
          /\ upload_handle_manager' = add_flush_handles(upload_handle_manager, picked)
    /\ UNCHANGED <<pc, imms, in_channel, shared_buffer, sync_uncommitted_data,
                   max_sync_epoch, uploaded, clear_handles, pending_sync_requests,
                   requests, read_version_mapping, pinned_version,
                   version_update_notifier, seal_epoch, meta>>
    /\ UNCHANGED <<handling, probe>>

(***************************************************************************)
(* Background upload tasks (tokio tasks, running beside the event loop).   *)
(***************************************************************************)
InLocalVersion(i) ==
    i \in shared_buffer \/ \E e \in Epochs : i \in sync_uncommitted_data[e].imms

\* A flush task ends: the memtable becomes an uncommitted SST of the local
\* version and the upload size is given back.
FlushTaskDone(i) ==
    /\ pc \in {"run", "clearing", "shutdown"}
    /\ tasks[FlushTask(i)] = "running"
    /\ tasks' = [tasks EXCEPT ![FlushTask(i)] = "done"]
    /\ uploading' = uploading \ {i}
    /\ uploaded' = IF InLocalVersion(i) THEN uploaded \cup {i} ELSE uploaded
    /\ global_upload_task_size' = global_upload_task_size - BatchSize
    /\ UNCHANGED <<pc, imms, in_channel, shared_buffer, sync_uncommitted_data,
                   max_sync_epoch, upload_handle_manager, clear_handles,
                   pending_sync_requests, requests, read_version_mapping, pinned_version,
                   version_update_notifier, seal_epoch, meta>>
    /\ UNCHANGED <<handling, probe>>

\* A sync upload task whose handle completes with the record left in Syncing.
SyncTaskDone_record_left(e, ok) ==
    /\ pc \in {"run", "clearing", "shutdown"}
    /\ tasks[SyncTask(e)] = "running"
    /\ tasks' = [tasks EXCEPT ![SyncTask(e)] = "done"]
    /\ UNCHANGED <<pc, imms, in_channel, shared_buffer, sync_uncommitted_data,
                   max_sync_epoch, uploading, uploaded, upload_handle_manager,
                   clear_handles, pending_sync_requests, requests, read_version_mapping,
                   pinned_version, version_update_notifier, seal_epoch,
                   global_upload_task_size, meta>>
    /\ UNCHANGED <<handling, probe>>

\* run_sync_upload_task ends: the record of the epoch becomes Synced, with the
\* SSTs of all its memtables, or Failed.
SyncTaskDone(e, ok) ==
    /\ pc \in {"run", "clearing", "shutdown"}
    /\ tasks[SyncTask(e)] = "running"
    /\ tasks' = [tasks EXCEPT ![SyncTask(e)] = "done"]
    /\ IF sync_uncommitted_data[e].stage = "Syncing"
          THEN IF ok
                  THEN /\ sync_uncommitted_data' =
                             [sync_uncommitted_data EXCEPT
                                 ![e].stage = "Synced", ![e].ssts = sync_uncommitted_data[e].imms]
                       /\ uploaded' = uploaded \cup sync_uncommitted_data[e].imms
                  ELSE /\ sync_uncommitted_data' =
                             [sync_uncommitted_data EXCEPT ![e].stage = "Failed"]
                       /\ UNCHANGED uploaded
          ELSE UNCHANGED <<sync_uncommitted_data, uploaded>>
    /\ UNCHANGED <<pc, imms, in_channel, shared_buffer, max_sync_epoch, uploading,
                   upload_handle_manager, clear_handles, pending_sync_requests, requests,
                   read_version_mapping, pinned_version, version_update_notifier,
                   seal_epoch, global_upload_task_size, meta>>
    /\ UNCHANGED <<handling, probe>>

(***************************************************************************)
(* LocalVersion: sealing and syncing.                                      *)
(***************************************************************************)
\* A seal that takes the memtables of its own epoch only.
SealedRecord_own_epoch(e) ==
    [stage |-> "Sealed",
     imms |-> {i \in shared_buffer : imms[i].epoch = e},
     ssts |-> {},
     size |-> 0]

\* The record a checkpoint seal of epoch e creates: every unsynced memtable of
\* an epoch <= e moves into its payload.
SealedRecord(e) ==
    [stage |-> "Sealed",
     imms |-> {i \in shared_buffer : imms[i].epoch <= e},
     ssts |-> {},
     size |-> 0]

\* SyncUncommittedData::start_syncing: Sealed -> Syncing; the payload is what the
\* record holds that is not uploaded yet.
SyncPayload(record) == record.imms \ uploaded

start_syncing_record(record) ==
    [record EXCEPT !.stage = "Syncing",
                   !.size = BatchSize * Cardinality(SyncPayload(record))]

\* LocalVersion::get_prev_max_sync_epoch; -1 stands for None (a stale sync).
get_prev_max_sync_epoch(e) ==
    IF e <= pinned_version.max_committed_epoch
        THEN -1
        ELSE Max({x \in SyncEpochs : x < e}, pinned_version.max_committed_epoch)

\* UploadHandleManager::drain_epoch_handle
drain_range(prev, e) == (prev + 1)..e

drained_handles(manager, range) == UNION {manager[x] : x \in range \cap Epochs}

\* A drain that returns the handles and leaves them attached.
drain_epoch_handle_kept(manager, range) == manager

drain_epoch_handle(manager, range) ==
    [x \in Epochs |-> IF x \in range THEN {} ELSE manager[x]]

(***************************************************************************)
(* Event loop: SealEpoch.                                                  *)
(***************************************************************************)
\* The senders seal an epoch after its batches were sent, and seal epochs that
\* are not checkpoints in increasing order.
SealEpochSendable(e, is_checkpoint) ==
    /\ \A i \in in_channel : imms[i].epoch > e
    /\ is_checkpoint \/ e > seal_epoch

\* A seal_epoch without its assertion.
seal_epoch_accepts_any(e, is_checkpoint) == TRUE

\* LocalVersion::seal_epoch accepts a checkpoint only past max_sync_epoch.
seal_epoch_accepts(e, is_checkpoint) == is_checkpoint => e > max_sync_epoch

\* A SealEpoch branch that seals every epoch as if it were no checkpoint.
HandleSealEpoch_checkpoint_ignored(e, is_checkpoint) ==
    /\ pc = "run"
    /\ SealEpochSendable(e, is_checkpoint)
    /\ seal_epoch' = e
    /\ UNCHANGED <<pc, imms, in_channel, shared_buffer, sync_uncommitted_data,
                   max_sync_epoch, uploading, uploaded, tasks, upload_handle_manager,
                   clear_handles, pending_sync_requests, requests, read_version_mapping,
                   pinned_version, version_update_notifier, global_upload_task_size, meta>>
    /\ UNCHANGED <<handling, probe>>

HandleSealEpoch(e, is_checkpoint) ==
    /\ pc = "run"
    /\ SealEpochSendable(e, is_checkpoint)
    /\ IF ~seal_epoch_accepts(e, is_checkpoint)
          THEN /\ pc' = "panic"
               /\ UNCHANGED <<shared_buffer, sync_uncommitted_data, max_sync_epoch, seal_epoch>>
          ELSE /\ pc' = pc
               /\ IF is_checkpoint
                     THEN /\ sync_uncommitted_data' =
                                [sync_uncommitted_data EXCEPT ![e] = SealedRecord(e)]
                          /\ shared_buffer' = shared_buffer \ SealedRecord(e).imms
                          /\ max_sync_epoch' = e
                     ELSE UNCHANGED <<shared_buffer, sync_uncommitted_data, max_sync_epoch>>
               /\ seal_epoch' = e
    /\ UNCHANGED <<imms, in_channel, uploading, uploaded, tasks, upload_handle_manager,
                   clear_handles, pending_sync_requests, requests, read_version_mapping,
                   pinned_version, version_update_notifier, global_upload_task_size, meta>>
    /\ UNCHANGED <<handling, probe>>

(***************************************************************************)
(* Event loop: SyncEpoch.                                                  *)
(***************************************************************************)
\* A SyncEpoch request as the caller sends it: the epoch, and the receiver of
\* the one-shot channel with what it has received.
NewRequest(e) == [epoch |-> e, replies |-> <<>>, rx_dropped |-> FALSE]

\* The request registered under pending_sync_requests[e]; an older sender found
\* there is answered "overwritten".
\* An insert that drops the older sender without answering it.
RegisterSyncRequest_silent(reqs, pending, e) ==
    Append(reqs, NewRequest(e))

RegisterSyncRequest(reqs, pending, e) ==
    LET added == Append(reqs, NewRequest(e)) IN
    IF pending[e] # 0
        THEN Deliver(added, pending[e], ErrReply("overwritten"))
        ELSE added

\* A stale sync that returns without answering: the sender stays registered.
sync_epoch_already_synced_unanswered(registered, pending, e) ==
    /\ requests' = registered
    /\ pending_sync_requests' = pending
    /\ UNCHANGED <<pc, shared_buffer, sync_uncommitted_data, max_sync_epoch,
                   tasks, upload_handle_manager>>

\* get_prev_max_sync_epoch returned none: the epoch has been synced, and the
\* request is answered at once.
sync_epoch_already_synced(registered, pending, e) ==
    /\ requests' = send_sync_result_requests(registered, pending, e, ErrReply("stale"))
    /\ pending_sync_requests' = send_sync_result_pending(pending, e)
    /\ UNCHANGED <<pc, shared_buffer, sync_uncommitted_data, max_sync_epoch,
                   tasks, upload_handle_manager>>

SyncEpochSendable(e) == \A i \in in_channel : imms[i].epoch > e

handle_sync_epoch(e) ==
    /\ pc = "run"
    /\ Len(requests) < MaxReq
    /\ SyncEpochSendable(e)
    /\ LET r == Len(requests) + 1
           registered == RegisterSyncRequest(requests, pending_sync_requests, e)
           pending == [pending_sync_requests EXCEPT ![e] = r]
           prev == get_prev_max_sync_epoch(e)
           range == drain_range(prev, e)
           flush_join_handles == drained_handles(upload_handle_manager, range)
           drained == drain_epoch_handle(upload_handle_manager, range)
           record == sync_uncommitted_data[e]
       IN
       IF prev = -1
          THEN sync_epoch_already_synced(registered, pending, e)
          ELSE
               /\ requests' = registered
               /\ pending_sync_requests' = pending
               /\ IF flush_join_handles = {}
                     THEN \* no pending flush to wait for: start syncing
                          IF record.stage = "Sealed"
                             THEN /\ sync_uncommitted_data' =
                                        [sync_uncommitted_data EXCEPT
                                            ![e] = start_syncing_record(record)]
                                  /\ tasks' = [tasks EXCEPT ![SyncTask(e)] = "running"]
                                  /\ upload_handle_manager' =
                                        add_epoch_handle(drained, e, {SyncTask(e)})
                                  /\ UNCHANGED <<pc, shared_buffer, max_sync_epoch>>
                             ELSE IF record.stage = "None" /\ e > max_sync_epoch
                                     THEN \* start_syncing seals the epoch first
                                          /\ sync_uncommitted_data' =
                                                [sync_uncommitted_data EXCEPT
                                                    ![e] = start_syncing_record(SealedRecord(e))]
                                          /\ shared_buffer' = shared_buffer \ SealedRecord(e).imms
                                          /\ max_sync_epoch' = e
                                          /\ tasks' = [tasks EXCEPT ![SyncTask(e)] = "running"]
                                          /\ upload_handle_manager' =
                                                add_epoch_handle(drained, e, {SyncTask(e)})
                                          /\ pc' = pc
                                     ELSE \* start_syncing from an invalid stage
                                          /\ pc' = "panic"
                                          /\ upload_handle_manager' = drained
                                          /\ UNCHANGED <<shared_buffer, sync_uncommitted_data,
                                                         max_sync_epoch, tasks>>
                     ELSE \* the flush handles are now attached to the new sync epoch
                          /\ upload_handle_manager' =
                                add_epoch_handle(drained, e, flush_join_handles)
                          /\ UNCHANGED <<pc, shared_buffer, sync_uncommitted_data,
                                         max_sync_epoch, tasks>>
    /\ UNCHANGED <<imms, in_channel, uploading, uploaded, clear_handles,
                   read_version_mapping, pinned_version, version_update_notifier,
                   seal_epoch, global_upload_task_size, meta>>
    /\ UNCHANGED <<handling, probe>>

\* The caller of a SyncEpoch drops the receiver before a reply has come.
DropReceiver(r) ==
    /\ r \in 1..Len(requests)
    /\ requests[r].replies = <<>>
    /\ ~requests[r].rx_dropped
    /\ requests' = [requests EXCEPT ![r].rx_dropped = TRUE]
    /\ UNCHANGED <<pc, handling, probe, imms, in_channel, shared_buffer,
                   sync_uncommitted_data, max_sync_epoch, uploading, uploaded, tasks,
                   upload_handle_manager, clear_handles, pending_sync_requests,
                   read_version_mapping,
                   pinned_version, version_update_notifier, seal_epoch,
                   global_upload_task_size, meta>>

(***************************************************************************)
(* Event loop: an upload epoch finished.                                   *)
(***************************************************************************)
\* UploadHandleManager::next_finished_epoch: an epoch is emitted when the last
\* handle attached to it has completed.
next_finished_epoch(e) ==
    /\ upload_handle_manager[e] # {}
    /\ \A t \in upload_handle_manager[e] : tasks[t] = "done"

\* A handler without the early return for the flush of an unsealed epoch.
finished_flush_of_no_syncing_epoch_never(e) == FALSE

\* The finished flush task does not belong to any syncing epoch.
finished_flush_of_no_syncing_epoch(e) == e > max_sync_epoch

\* A result that is Ok for a failed record too.
sync_result_always_ok(record) == OkReply(record.ssts, record.size)

\* The result sent for a finished sync: Err("sync task failed") for a Failed
\* record, Ok with the SSTs and the size of a Synced one.
sync_result(record) ==
    IF record.stage = "Synced"
       THEN OkReply(record.ssts, record.size)
       ELSE ErrReply("failed")

handle_epoch_finished(e) ==
    /\ pc = "run"
    /\ next_finished_epoch(e)
    /\ LET emitted == [upload_handle_manager EXCEPT ![e] = {}]
           joined == [t \in TaskIds |->
                         IF t \in upload_handle_manager[e] THEN "none" ELSE tasks[t]]
           record == sync_uncommitted_data[e]
       IN
       IF finished_flush_of_no_syncing_epoch(e)
          THEN \* return
               /\ upload_handle_manager' = emitted
               /\ tasks' = joined
               /\ UNCHANGED <<pc, sync_uncommitted_data, pending_sync_requests, requests>>
          ELSE CASE record.stage = "Sealed" ->
                       /\ sync_uncommitted_data' =
                             [sync_uncommitted_data EXCEPT ![e] = start_syncing_record(record)]
                       /\ tasks' = [joined EXCEPT ![SyncTask(e)] = "running"]
                       /\ upload_handle_manager' = add_epoch_handle(emitted, e, {SyncTask(e)})
                       /\ UNCHANGED <<pc, pending_sync_requests, requests>>
                 [] record.stage \in {"Failed", "Synced"} /\ pending_sync_requests[e] # 0 ->
                       /\ requests' =
                             send_sync_result_requests(
                                 requests, pending_sync_requests, e, sync_result(record))
                       /\ pending_sync_requests' =
                             send_sync_result_pending(pending_sync_requests, e)
                       /\ upload_handle_manager' = emitted
                       /\ tasks' = joined
                       /\ UNCHANGED <<pc, sync_uncommitted_data>>
                 [] OTHER ->
                       \* "should find", the unreachable Syncing stage, or a result
                       \* for an epoch nobody requested
                       /\ pc' = "panic"
                       /\ upload_handle_manager' = emitted
                       /\ tasks' = joined
                       /\ UNCHANGED <<sync_uncommitted_data, pending_sync_requests, requests>>
    /\ UNCHANGED <<imms, in_channel, shared_buffer, max_sync_epoch, uploading, uploaded,
                   clear_handles, read_version_mapping, pinned_version,
                   version_update_notifier, seal_epoch, global_upload_task_size, meta>>
    /\ UNCHANGED <<handling, probe>>

(***************************************************************************)
(* Event loop: Clear and Shutdown.                                         *)
(***************************************************************************)
\* A handle_clear that drains the handles of the epochs up to max_sync_epoch only.
handle_clear_drain_synced_only ==
    /\ pc = "run"
    /\ pc' = "clearing"
    /\ clear_handles' = drained_handles(upload_handle_manager, 1..max_sync_epoch)
    /\ upload_handle_manager' = drain_epoch_handle(upload_handle_manager, 1..max_sync_epoch)
    /\ UNCHANGED <<imms, in_channel, shared_buffer, sync_uncommitted_data, max_sync_epoch,
                   uploading, uploaded, tasks, pending_sync_requests, requests,
                   read_version_mapping, pinned_version, version_update_notifier,
                   seal_epoch, global_upload_task_size, meta>>
    /\ UNCHANGED <<handling, probe>>

\* handle_clear up to its await: every upload handle is drained.
handle_clear_drain ==
    /\ pc = "run"
    /\ pc' = "clearing"
    /\ clear_handles' = drained_handles(upload_handle_manager, Epochs)
    /\ upload_handle_manager' = drain_epoch_handle(upload_handle_manager, Epochs)
    /\ UNCHANGED <<imms, in_channel, shared_buffer, sync_uncommitted_data, max_sync_epoch,
                   uploading, uploaded, tasks, pending_sync_requests, requests,
                   read_version_mapping, pinned_version, version_update_notifier,
                   seal_epoch, global_upload_task_size, meta>>
    /\ UNCHANGED <<handling, probe>>

\* Every pending sync request is answered "cleared".
RECURSIVE ClearPending(_, _)
ClearPending(reqs, epochs) ==
    IF epochs = {} THEN reqs
    ELSE LET e == CHOOSE x \in epochs : TRUE IN
             ClearPending(send_sync_result_requests(reqs, pending_sync_requests, e,
                                                    ErrReply("cleared")),
                          epochs \ {e})

\* LocalVersion::clear_shared_buffer
clear_shared_buffer_records == [e \in Epochs |-> NoRecord]

\* A handle_clear that unwraps the result of the join: it aborts when a drained
\* sync task has failed.
handle_clear_finish_join_unwrap(notifier_rx_alive) ==
    /\ pc = "clearing"
    /\ \A t \in clear_handles : tasks[t] = "done"
    /\ IF \E e \in Epochs :
             SyncTask(e) \in clear_handles /\ sync_uncommitted_data[e].stage = "Failed"
          THEN /\ pc' = "panic"
               /\ UNCHANGED <<tasks, clear_handles, requests, pending_sync_requests,
                              shared_buffer, sync_uncommitted_data, uploaded>>
          ELSE /\ tasks' = [t \in TaskIds |-> IF t \in clear_handles THEN "none" ELSE tasks[t]]
               /\ clear_handles' = {}
               /\ requests' =
                     ClearPending(requests, {e \in Epochs : pending_sync_requests[e] # 0})
               /\ pending_sync_requests' = [e \in Epochs |-> 0]
               /\ shared_buffer' = {}
               /\ sync_uncommitted_data' = clear_shared_buffer_records
               /\ uploaded' = {}
               /\ pc' = IF notifier_rx_alive THEN "run" ELSE "panic"
    /\ UNCHANGED <<imms, in_channel, max_sync_epoch, uploading, upload_handle_manager,
                   read_version_mapping, pinned_version, version_update_notifier,
                   seal_epoch, global_upload_task_size, meta>>
    /\ UNCHANGED <<handling, probe>>

\* handle_clear after try_join_all returned; the receiver of the notifier may
\* have been dropped by then, and notifier.send(()).unwrap() panics.
handle_clear_finish(notifier_rx_alive) ==
    /\ pc = "clearing"
    /\ \A t \in clear_handles : tasks[t] = "done"
    /\ tasks' = [t \in TaskIds |-> IF t \in clear_handles THEN "none" ELSE tasks[t]]
    /\ clear_handles' = {}
    /\ requests' = ClearPending(requests, {e \in Epochs : pending_sync_requests[e] # 0})
    /\ pending_sync_requests' = [e \in Epochs |-> 0]
    /\ shared_buffer' = {}
    /\ sync_uncommitted_data' = clear_shared_buffer_records
    /\ uploaded' = {}
    /\ pc' = IF notifier_rx_alive THEN "run" ELSE "panic"
    /\ UNCHANGED <<imms, in_channel, max_sync_epoch, uploading, upload_handle_manager,
                   read_version_mapping, pinned_version, version_update_notifier,
                   seal_epoch, global_upload_task_size, meta>>
    /\ UNCHANGED <<handling, probe>>

Shutdown ==
    /\ pc = "run"
    /\ pc' = "shutdown"
    /\ UNCHANGED <<imms, in_channel, shared_buffer, sync_uncommitted_data, max_sync_epoch,
                   uploading, uploaded, tasks, upload_handle_manager, clear_handles,
                   pending_sync_requests, requests, read_version_mapping, pinned_version,
                   version_update_notifier, seal_epoch, global_upload_task_size, meta>>
    /\ UNCHANGED <<handling, probe>>

\* hummock_event_rx.recv() returns None: every sender was dropped and no event
\* is left in the channel.
AllSendersDropped ==
    /\ pc = "run"
    /\ in_channel = {}
    /\ pc' = "shutdown"
    /\ UNCHANGED <<imms, in_channel, shared_buffer, sync_uncommitted_data, max_sync_epoch,
                   uploading, uploaded, tasks, upload_handle_manager, clear_handles,
                   pending_sync_requests, requests, read_version_mapping, pinned_version,
                   version_update_notifier, seal_epoch, global_upload_task_size, meta>>
    /\ UNCHANGED <<handling, probe>>

(***************************************************************************)
(* Metadata service: commits and new versions.                             *)
(***************************************************************************)
LatestVersion == meta[Len(meta)]

HasOkReply(e) ==
    \E r \in 1..Len(requests) :
        /\ requests[r].epoch = e
        /\ Len(requests[r].replies) > 0
        /\ requests[r].replies[1].kind = "ok"

\* The caller commits a synced epoch (commit_epoch with the SSTs of its sync
\* result), epochs in order; the service answers with a new version.
CommitEpoch(e) ==
    /\ pc \in {"run", "clearing"}
    /\ Len(meta) < MaxVersion
    /\ e > LatestVersion.max_committed_epoch
    /\ HasOkReply(e)
    /\ \A x \in SyncEpochs : x < e => x <= LatestVersion.max_committed_epoch
    /\ meta' = Append(meta, [id |-> Len(meta) + 1,
                             max_committed_epoch |-> e,
                             data |-> LatestVersion.data \cup
                                      UNION {requests[r].replies[1].uncommitted_ssts :
                                                r \in {x \in 1..Len(requests) :
                                                          /\ requests[x].epoch = e
                                                          /\ Len(requests[x].replies) > 0
                                                          /\ requests[x].replies[1].kind = "ok"}}])
    /\ UNCHANGED <<pc, imms, in_channel, shared_buffer, sync_uncommitted_data,
                   max_sync_epoch, uploading, uploaded, tasks, upload_handle_manager,
                   clear_handles, pending_sync_requests, requests, read_version_mapping,
                   pinned_version, version_update_notifier, seal_epoch,
                   global_upload_task_size>>
    /\ UNCHANGED <<handling, probe>>

\* A new version that commits nothing (a compaction result).
NewVersionSameEpoch ==
    /\ pc \in {"run", "clearing"}
    /\ Len(meta) < MaxVersion
    /\ meta' = Append(meta, [LatestVersion EXCEPT !.id = Len(meta) + 1])
    /\ UNCHANGED <<pc, imms, in_channel, shared_buffer, sync_uncommitted_data,
                   max_sync_epoch, uploading, uploaded, tasks, upload_handle_manager,
                   clear_handles, pending_sync_requests, requests, read_version_mapping,
                   pinned_version, version_update_notifier, seal_epoch,
                   global_upload_task_size>>
    /\ UNCHANGED <<handling, probe>>

\* The delta from version k to version k + 1.
VersionDelta(k) ==
    [prev_id |-> k,
     id |-> k + 1,
     max_committed_epoch |-> meta[k + 1].max_committed_epoch,
     added |-> meta[k + 1].data \ meta[k].data]

\* Payloads the observer can deliver: a full version not older than the pinned
\* one, or the deltas a+1 .. b (possibly none, possibly not starting at the
\* pinned version).
FullPayload(k) == [full |-> TRUE, version |-> meta[k], deltas |-> <<>>]
DeltasPayload(a, b) ==
    [full |-> FALSE, version |-> InitialVersion,
     deltas |-> [n \in 1..(b - a) |-> VersionDelta(a + n - 1)]]

\* Two deltas that need not follow each other (a delta sent twice, or lost).
DeltaPair(a, b) ==
    [full |-> FALSE, version |-> InitialVersion,
     deltas |-> <<VersionDelta(a), VersionDelta(b)>>]

Payloads ==
    {FullPayload(k) : k \in pinned_version.id..Len(meta)}
    \cup {DeltasPayload(ab[1], ab[2]) :
             ab \in {x \in (1..Len(meta)) \X (1..Len(meta)) : x[1] <= x[2]}}
    \cup {DeltaPair(ab[1], ab[2]) :
             ab \in (1..(Len(meta) - 1)) \X (1..(Len(meta) - 1))}

(***************************************************************************)
(* Event loop: VersionUpdate.                                              *)
(***************************************************************************)
\* HummockVersionExt::apply_version_delta
apply_version_delta(version, delta) ==
    [id |-> delta.id,
     max_committed_epoch |-> delta.max_committed_epoch,
     data |-> version.data \cup delta.added]

\* The loop over the deltas of the payload; ok is FALSE when the assert_eq on
\* prev_id fails.
\* A loop that applies only the last delta of the payload.
ApplyDeltas_last_only(version, deltas) ==
    IF deltas = <<>> THEN [ok |-> TRUE, version |-> version]
    ELSE [ok |-> TRUE, version |-> apply_version_delta(version, deltas[Len(deltas)])]

\* A loop without the assertion on prev_id.
RECURSIVE ApplyDeltas_unchecked(_, _)
ApplyDeltas_unchecked(version, deltas) ==
    IF deltas = <<>> THEN [ok |-> TRUE, version |-> version]
    ELSE ApplyDeltas_unchecked(apply_version_delta(version, Head(deltas)), Tail(deltas))

RECURSIVE ApplyDeltas(_, _)
ApplyDeltas(version, deltas) ==
    IF deltas = <<>> THEN [ok |-> TRUE, version |-> version]
    ELSE IF version.id # Head(deltas).prev_id
            THEN [ok |-> FALSE, version |-> version]
            ELSE ApplyDeltas(apply_version_delta(version, Head(deltas)), Tail(deltas))

newly_pinned_version(payload) ==
    IF payload.full
        THEN [ok |-> TRUE, version |-> payload.version]
        ELSE ApplyDeltas(pinned_version, payload.deltas)

\* PinnedVersion::new_pin_version
new_pin_version(old, version) == version

\* HummockReadVersion::update(VersionUpdate::CommittedSnapshot): the committed
\* version is replaced and the staging entries it covers are dropped.
UpdateCommittedSnapshot(read_version, version) ==
    [read_version EXCEPT
        !.committed = version,
        !.staging = {i \in @ : imms[i].epoch > version.max_committed_epoch}]

\* A fan-out that hands out the new committed epoch with the files of the
\* version pinned before.
UpdateReadVersions_old_files(mapping, version) ==
    [t \in TableIds |->
        [mapping[t] EXCEPT
            !.instances = [i \in InstanceIds |->
                              IF mapping[t].present /\ mapping[t].instances[i].registered
                                 THEN UpdateCommittedSnapshot(
                                          mapping[t].instances[i],
                                          [version EXCEPT !.data = pinned_version.data])
                                 ELSE mapping[t].instances[i]]]]

\* A version update that forgets the read versions.
UpdateReadVersions_none(mapping, version) == mapping

\* A fan-out that stops after the read versions of the first table.
UpdateReadVersions_first_table(mapping, version) ==
    [t \in TableIds |->
        [mapping[t] EXCEPT
            !.instances = [i \in InstanceIds |->
                              IF t = 1 /\ mapping[t].present /\ mapping[t].instances[i].registered
                                 THEN UpdateCommittedSnapshot(mapping[t].instances[i], version)
                                 ELSE mapping[t].instances[i]]]]

\* The fan-out to every read version of the mapping.
UpdateReadVersions(mapping, version) ==
    [t \in TableIds |->
        [mapping[t] EXCEPT
            !.instances = [i \in InstanceIds |->
                              IF mapping[t].present /\ mapping[t].instances[i].registered
                                 THEN UpdateCommittedSnapshot(mapping[t].instances[i], version)
                                 ELSE mapping[t].instances[i]]]]

\* A send_if_modified whose closure always reports a modification.
NotifyVersionUpdate_always(watch, max_committed_epoch) ==
    [state |-> IF max_committed_epoch > watch.state THEN max_committed_epoch ELSE watch.state,
     version |-> watch.version + 1]

\* A send_if_modified whose closure leaves the value of the channel alone.
NotifyVersionUpdate_value_kept(watch, max_committed_epoch) == watch

\* send_if_modified on the version watch: the closure replaces the value by a
\* larger max_committed_epoch and reports whether it did; the receivers are
\* notified (the version is stepped) only then.
NotifyVersionUpdate(watch, max_committed_epoch) ==
    IF max_committed_epoch > watch.state
        THEN [state |-> max_committed_epoch, version |-> watch.version + 1]
        ELSE watch

\* try_update_pinned_version: the local version drops the committed records.
CommittedRecords(version) == {e \in SyncEpochs : e <= version.max_committed_epoch}

\* An eviction that drops every record, committed or not.
EvictCommitted_all(records, version) == [e \in Epochs |-> NoRecord]

\* A version update that leaves the committed records in the local version.
EvictCommitted_none(records, version) == records

EvictCommitted(records, version) ==
    [e \in Epochs |-> IF e \in CommittedRecords(version) THEN NoRecord ELSE records[e]]

handle_version_update(payload) ==
    /\ pc = "run"
    /\ LET prev_max_committed_epoch == pinned_version.max_committed_epoch
           newly == newly_pinned_version(payload)
           pinned == new_pin_version(pinned_version, newly.version)
       IN
       IF ~newly.ok
          THEN \* assert_eq!(version_to_apply.id, version_delta.prev_id)
               /\ pc' = "panic"
               /\ UNCHANGED <<pinned_version, read_version_mapping, version_update_notifier,
                              sync_uncommitted_data, uploaded>>
          ELSE
               /\ pinned_version' = pinned
               /\ read_version_mapping' = UpdateReadVersions(read_version_mapping, pinned)
               /\ IF prev_max_committed_epoch # version_update_notifier.state
                     THEN \* assert_eq!(prev_max_committed_epoch, *state)
                          /\ pc' = "panic"
                          /\ UNCHANGED <<version_update_notifier, sync_uncommitted_data, uploaded>>
                     ELSE /\ pc' = pc
                          /\ version_update_notifier' =
                                NotifyVersionUpdate(version_update_notifier,
                                                    pinned.max_committed_epoch)
                          /\ sync_uncommitted_data' = EvictCommitted(sync_uncommitted_data, pinned)
                          /\ uploaded' = uploaded \
                                UNION {sync_uncommitted_data[e].imms : e \in CommittedRecords(pinned)}
    /\ UNCHANGED <<imms, in_channel, shared_buffer, max_sync_epoch, uploading, tasks,
                   upload_handle_manager, clear_handles, pending_sync_requests, requests,
                   seal_epoch, global_upload_task_size, meta>>
    /\ UNCHANGED <<handling, probe>>

(***************************************************************************)
(* Register, Destroy and VersionUpdate step by step: the guards of         *)
(* read_version_mapping and of the read versions that the loop takes and   *)
(* drops while it handles the event.                                       *)
(***************************************************************************)
\* What these three handlers leave alone.
UploadState ==
    <<imms, in_channel, shared_buffer, max_sync_epoch, uploading, tasks,
      upload_handle_manager, clear_handles, pending_sync_requests, requests,
      seal_epoch, global_upload_task_size, meta, probe>>

\* Register: the read version is built and read_version_mapping.write() taken.
RegisterLock(t, i) ==
    /\ pc = "run"
    /\ pc' = "handling"
    /\ handling' = [NoHandling EXCEPT !.event = "Register",
                                      !.table_id = t,
                                      !.instance_id = i,
                                      !.read_version_mapping_guard = "write"]
    /\ UNCHANGED <<UploadState, sync_uncommitted_data, uploaded, read_version_mapping,
                   pinned_version, version_update_notifier>>

\* A Register branch that goes back to the select with its guard.
RegisterInsert_guard_kept ==
    /\ pc = "handling"
    /\ handling.event = "Register"
    /\ read_version_mapping' =
          [read_version_mapping EXCEPT
              ![handling.table_id] =
                  [present |-> TRUE,
                   instances |-> [@.instances EXCEPT
                                     ![handling.instance_id] = NewReadVersion(pinned_version)]]]
    /\ handling' = [NoHandling EXCEPT !.read_version_mapping_guard = "write"]
    /\ pc' = "run"
    /\ UNCHANGED <<UploadState, sync_uncommitted_data, uploaded, pinned_version,
                   version_update_notifier>>

\* Register: the insert under the guard, the reply, and the end of the branch,
\* which drops the guard.
RegisterInsert ==
    /\ pc = "handling"
    /\ handling.event = "Register"
    /\ read_version_mapping' =
          [read_version_mapping EXCEPT
              ![handling.table_id] =
                  [present |-> TRUE,
                   instances |-> [@.instances EXCEPT
                                     ![handling.instance_id] = NewReadVersion(pinned_version)]]]
    /\ handling' = NoHandling
    /\ pc' = "run"
    /\ UNCHANGED <<UploadState, sync_uncommitted_data, uploaded, pinned_version,
                   version_update_notifier>>

\* Destroy: read_version_mapping.write() is taken.
DestroyLock(t, i) ==
    /\ pc = "run"
    /\ pc' = "handling"
    /\ handling' = [NoHandling EXCEPT !.event = "Destroy",
                                      !.table_id = t,
                                      !.instance_id = i,
                                      !.read_version_mapping_guard = "write"]
    /\ UNCHANGED <<UploadState, sync_uncommitted_data, uploaded, read_version_mapping,
                   pinned_version, version_update_notifier>>

\* Destroy: the removal under the guard, or the panic for a table that is not
\* there; the guard is dropped at the end of the branch, or by the unwinding.
DestroyRemove ==
    /\ pc = "handling"
    /\ handling.event = "Destroy"
    /\ IF read_version_mapping[handling.table_id].present
          THEN /\ read_version_mapping' =
                     [read_version_mapping EXCEPT
                         ![handling.table_id].instances[handling.instance_id] = NoReadVersion]
               /\ pc' = "run"
          ELSE /\ pc' = "panic"
               /\ UNCHANGED read_version_mapping
    /\ handling' = NoHandling
    /\ UNCHANGED <<UploadState, sync_uncommitted_data, uploaded, pinned_version,
                   version_update_notifier>>

\* VersionUpdate: the new version is pinned and read_version_mapping.read() is
\* taken for the fan-out.
VersionUpdatePin(payload) ==
    /\ pc = "run"
    /\ LET newly == newly_pinned_version(payload) IN
       IF ~newly.ok
          THEN /\ pc' = "panic"
               /\ UNCHANGED <<pinned_version, handling>>
          ELSE /\ pc' = "handling"
               /\ pinned_version' = new_pin_version(pinned_version, newly.version)
               /\ handling' =
                     [NoHandling EXCEPT
                         !.event = "VersionUpdate",
                         !.prev_max_committed_epoch = pinned_version.max_committed_epoch,
                         !.read_versions = Registered,
                         !.read_version_mapping_guard = "read"]
    /\ UNCHANGED <<UploadState, sync_uncommitted_data, uploaded, read_version_mapping,
                   version_update_notifier>>

\* The fan-out reaches a read version and takes its write guard.
FanOutLock(t, i) ==
    /\ pc = "handling"
    /\ handling.event = "VersionUpdate"
    /\ <<t, i>> \in handling.read_versions
    /\ handling.read_version_guard = {}
    /\ handling' = [handling EXCEPT !.read_version_guard = {<<t, i>>}]
    /\ UNCHANGED <<pc, UploadState, sync_uncommitted_data, uploaded, read_version_mapping,
                   pinned_version, version_update_notifier>>

\* The read version under the guard is updated and its guard dropped.
FanOutUpdate ==
    /\ pc = "handling"
    /\ handling.event = "VersionUpdate"
    /\ handling.read_version_guard # {}
    /\ LET ti == CHOOSE x \in handling.read_version_guard : TRUE IN
          /\ read_version_mapping' =
                [read_version_mapping EXCEPT
                    ![ti[1]].instances[ti[2]] = UpdateCommittedSnapshot(@, pinned_version)]
          /\ handling' = [handling EXCEPT !.read_versions = @ \ {ti},
                                          !.read_version_guard = {}]
    /\ UNCHANGED <<pc, UploadState, sync_uncommitted_data, uploaded, pinned_version,
                   version_update_notifier>>

\* The end of the fan-out drops the guard of the mapping; then the watchers
\* are notified and the local version drops the committed records.
VersionUpdateFinish ==
    /\ pc = "handling"
    /\ handling.event = "VersionUpdate"
    /\ handling.read_versions = {}
    /\ handling.read_version_guard = {}
    /\ handling' = NoHandling
    /\ IF handling.prev_max_committed_epoch # version_update_notifier.state
          THEN /\ pc' = "panic"
               /\ UNCHANGED <<version_update_notifier, sync_uncommitted_data, uploaded>>
          ELSE /\ pc' = "run"
               /\ version_update_notifier' =
                     NotifyVersionUpdate(version_update_notifier,
                                         pinned_version.max_committed_epoch)
               /\ sync_uncommitted_data' = EvictCommitted(sync_uncommitted_data, pinned_version)
               /\ uploaded' = uploaded \
                     UNION {sync_uncommitted_data[e].imms : e \in CommittedRecords(pinned_version)}
    /\ UNCHANGED <<UploadState, read_version_mapping, pinned_version>>

(***************************************************************************)
(* Reader path: get(key, read_epoch) through the read version of an        *)
(* instance.                                                               *)
(***************************************************************************)
\* The result of a get that finds nothing, or a delete.
NoValue == 0

\* The value a write carries: every batch writes a value of its own.
Value(i) == IF imms[i].del THEN NoValue ELSE i

\* The entry of the largest epoch among the entries found.
Newest(S) == CHOOSE i \in S : \A j \in S : imms[j].epoch <= imms[i].epoch

\* Staging from newest to oldest, skipping epochs past read_epoch; then the
\* committed files of the pinned version up to min(read_epoch,
\* max_committed_epoch).  The first entry found wins; a delete yields None.
get(t, i, key, read_epoch) ==
    LET read_version == ReadVersion(t, i)
        staged == {x \in read_version.staging :
                      imms[x].key = key /\ imms[x].epoch <= read_epoch}
        upto == Min({read_epoch, read_version.committed.max_committed_epoch}, 0)
        committed == {x \in read_version.committed.data :
                         imms[x].key = key /\ imms[x].epoch <= upto}
    IN  IF staged # {} THEN Value(Newest(staged))
        ELSE IF committed # {} THEN Value(Newest(committed))
        ELSE NoValue

\* The value of HummockEpoch that stands behind an epoch of the model: the
\* physical time in milliseconds, shifted left by 16 bits (31 s, 32 s, ...).
EpochShift == 16
EpochOf(e) == ((30 + e) * 1000) * 2^EpochShift

\* ReadOptions::retention_seconds: None, or a number of seconds.
NoRetention == -1
Retentions == {NoRetention, 1, 2}

\* The smallest epoch an iterator still shows is the one just above min_epoch:
\* the read epoch's time minus the retention, with the low bits cleared.
gen_min_epoch_none(base_epoch, retention_seconds) == 0

gen_min_epoch(base_epoch, retention_seconds) ==
    IF retention_seconds = NoRetention THEN 0
    ELSE LET physical_time == base_epoch \div 2^EpochShift IN
         IF physical_time < retention_seconds * 1000 THEN 0
         ELSE (physical_time - retention_seconds * 1000) * 2^EpochShift

\* The entries an iterator over the keys lo..hi reads: staging and committed
\* files under the visibility rule of get, without the epochs up to min_epoch.
IterEntries(t, i, lo, hi, read_epoch, retention_seconds) ==
    LET read_version == ReadVersion(t, i)
        min_epoch == gen_min_epoch(EpochOf(read_epoch), retention_seconds)
        upto == Min({read_epoch, read_version.committed.max_committed_epoch}, 0)
    IN  {x \in read_version.staging \cup
                  {y \in read_version.committed.data : imms[y].epoch <= upto} :
            /\ imms[x].key \in lo..hi
            /\ imms[x].epoch <= read_epoch
            /\ EpochOf(imms[x].epoch) > min_epoch}

\* A merge that yields every version of a key.
RECURSIVE MergeIterator_all_versions(_)
MergeIterator_all_versions(entries) ==
    IF entries = {} THEN <<>>
    ELSE LET key == Min({imms[x].key : x \in entries}, 0)
             first == Newest({x \in entries : imms[x].key = key})
             rest == MergeIterator_all_versions(entries \ {first})
         IN  IF Value(first) = NoValue THEN rest ELSE <<<<key, Value(first)>>>> \o rest

\* The merging iterator: keys in ascending order; of the versions of a key the
\* one of the largest epoch is taken and the others are skipped; a key whose
\* version is a delete is skipped.
RECURSIVE MergeIterator(_)
MergeIterator(entries) ==
    IF entries = {} THEN <<>>
    ELSE LET key == Min({imms[x].key : x \in entries}, 0)
             versions == {x \in entries : imms[x].key = key}
             first == Newest(versions)
             rest == MergeIterator(entries \ versions)
         IN  IF Value(first) = NoValue THEN rest ELSE <<<<key, Value(first)>>>> \o rest

iter(t, i, lo, hi, read_epoch, retention_seconds) ==
    MergeIterator(IterEntries(t, i, lo, hi, read_epoch, retention_seconds))

(***************************************************************************)
(* The system.                                                             *)
(***************************************************************************)
\* The upload tasks, which run beside the loop.
FlushTasks == \E i \in ImmIds : FlushTaskDone(i)

SyncTasks == \E e \in Epochs, ok \in BOOLEAN : SyncTaskDone(e, ok)

\* The writers: the instances of Writers ingest puts, and deletes when Dels.
Ingest(Writers, Dels) ==
    \E t \in TableIds, i \in Writers, e \in Epochs, del \in Dels : IngestBatch(t, i, e, del)

\* An instance registers once.
RegisterOnce(Instances) ==
    \E t \in {1}, i \in Instances :
        /\ <<t, i>> \notin Registered
        /\ RegisterHummockInstance(t, i)

\* The events of the sync path; a SyncEpoch may come for any epoch.
SealAndFinish ==
    \/ handle_imm_to_uploader
    \/ \E e \in Epochs, c \in BOOLEAN : HandleSealEpoch(e, c)
    \/ \E e \in Epochs : handle_epoch_finished(e)

SyncPath ==
    \/ SealAndFinish
    \/ \E e \in Epochs : handle_sync_epoch(e)

\* The callers' protocol (sync_epoch of the tests): SyncEpoch(e) follows
\* SealEpoch(e, checkpoint); the epoch may have been committed since.
SealedAsCheckpoint(e) ==
    \/ sync_uncommitted_data[e].stage # "None"
    \/ e <= pinned_version.max_committed_epoch

SyncSealedEpoch == \E e \in Epochs : SealedAsCheckpoint(e) /\ handle_sync_epoch(e)

\* The metadata service and the version updates it sends.
Versions ==
    \/ \E e \in Epochs : CommitEpoch(e)
    \/ NewVersionSameEpoch
    \/ \E payload \in Payloads : handle_version_update(payload)

Clear ==
    \/ handle_clear_drain
    \/ \E notifier_rx_alive \in BOOLEAN : handle_clear_finish(notifier_rx_alive)

Registry(Tables) ==
    \/ \E t \in Tables, i \in InstanceIds : RegisterHummockInstance(t, i)
    \/ \E t \in Tables, i \in InstanceIds : DestroyHummockInstance(t, i)

\* One writer instance: ingest (puts and deletes), flush, seal, sync, commit and
\* version updates.
Next ==
    \/ RegisterOnce({1})
    \/ Ingest({1}, BOOLEAN)
    \/ HandleBufferMayFlush
    \/ FlushTasks
    \/ SyncTasks
    \/ SyncPath
    \/ Versions

Spec == Init /\ [][Next]_vars

\* Two instances that write a key each while their epochs are sealed, synced
\* and committed, for the readers of both keys (no flush before the sync).
NextRead ==
    \/ RegisterOnce({1, 2})
    \/ Ingest({1, 2}, BOOLEAN)
    \/ SyncTasks
    \/ SyncPath
    \/ Versions

ReadSpec == Init /\ [][NextRead]_vars

\* The same with Clear events (puts only).
NextClear ==
    \/ RegisterOnce({1})
    \/ Ingest({1}, {FALSE})
    \/ HandleBufferMayFlush
    \/ FlushTasks
    \/ SyncTasks
    \/ SyncPath
    \/ Versions
    \/ Clear

ClearSpec == Init /\ [][NextClear]_vars

\* Instances come and go while epochs are synced, committed and cleared (no
\* flush before the sync).
NextEvents ==
    \/ Registry({1})
    \/ Ingest({1}, {FALSE})
    \/ SyncTasks
    \/ SyncPath
    \/ Versions
    \/ Clear

EventsSpec == Init /\ [][NextEvents]_vars

\* The instances of two tables come and go while epochs without writes are
\* sealed, synced and committed and the versions are sent to the handler.
NextFanout ==
    \/ Registry(TableIds)
    \/ \E e \in Epochs, c \in BOOLEAN : HandleSealEpoch(e, c)
    \/ \E e \in Epochs : handle_sync_epoch(e)
    \/ \E e \in Epochs : handle_epoch_finished(e)
    \/ SyncTasks
    \/ Versions

FanoutSpec == Init /\ [][NextFanout]_vars

NextTracker == CallNeedMoreFlush

TrackerSpec == InitTracker /\ [][NextTracker]_vars

\* The instances of two tables come and go and versions reach the handler,
\* with Register, Destroy and VersionUpdate handled step by step, and Clear.
NextLatch ==
    \/ \E t \in TableIds, i \in InstanceIds : RegisterLock(t, i)
    \/ RegisterInsert
    \/ \E t \in TableIds, i \in InstanceIds : DestroyLock(t, i)
    \/ DestroyRemove
    \/ NewVersionSameEpoch
    \/ \E payload \in Payloads : VersionUpdatePin(payload)
    \/ \E t \in TableIds, i \in InstanceIds : FanOutLock(t, i)
    \/ FanOutUpdate
    \/ VersionUpdateFinish
    \/ Clear

LatchSpec == Init /\ [][NextLatch]_vars

\* The loop until Shutdown, with callers that sync the epochs they sealed as
\* checkpoint, under the scheduling the runtime gives: a spawned upload task
\* runs to its end, the loop takes an event that waits in its channel and an
\* epoch whose handles have finished, and the join of handle_clear returns.
\* Nothing obliges the senders to send anything.
NextLive ==
    \/ RegisterOnce({1})
    \/ Ingest({1}, {FALSE})
    \/ HandleBufferMayFlush
    \/ FlushTasks
    \/ SyncTasks
    \/ SealAndFinish
    \/ SyncSealedEpoch
    \/ Versions
    \/ Clear
    \/ Shutdown
    \/ AllSendersDropped

Fairness ==
    /\ \A i \in ImmIds : WF_vars(FlushTaskDone(i))
    /\ \A e \in Epochs : WF_vars(\E ok \in BOOLEAN : SyncTaskDone(e, ok))
    /\ \A e \in Epochs : WF_vars(handle_epoch_finished(e))
    /\ WF_vars(handle_imm_to_uploader)
    /\ WF_vars(HandleBufferMayFlush)
    /\ WF_vars(\E notifier_rx_alive \in BOOLEAN : handle_clear_finish(notifier_rx_alive))

LiveSpec == Init /\ [][NextLive]_vars /\ Fairness

\* The sync path of that loop (no flush before the sync), with callers that may
\* drop the receiver of their SyncEpoch before the reply.
NextCancel ==
    \/ RegisterOnce({1})
    \/ Ingest({1}, {FALSE})
    \/ SyncTasks
    \/ SealAndFinish
    \/ SyncSealedEpoch
    \/ \E r \in ReqIds : DropReceiver(r)
    \/ Versions
    \/ Clear
    \/ Shutdown

CancelFairness ==
    /\ \A e \in Epochs : WF_vars(\E ok \in BOOLEAN : SyncTaskDone(e, ok))
    /\ \A e \in Epochs : WF_vars(handle_epoch_finished(e))
    /\ WF_vars(handle_imm_to_uploader)
    /\ WF_vars(\E notifier_rx_alive \in BOOLEAN : handle_clear_finish(notifier_rx_alive))

CancelSpec == Init /\ [][NextCancel]_vars /\ CancelFairness

(***************************************************************************)
(* Properties.                                                             *)
(***************************************************************************)
\* C1: over every step of the event loop (ImmToUploader, SealEpoch, SyncEpoch,
\* VersionUpdate with a full version or with deltas, Clear, Register, Destroy)
\* the max_committed_epoch of the handler's pinned version never decreases, nor
\* does the one of the version held by a registered read version; a read version
\* registered in the step starts at no less than the handler's epoch before it.
C1_CommittedEpochNeverDecreases ==
    [][/\ pinned_version'.max_committed_epoch >= pinned_version.max_committed_epoch
       /\ \A ti \in Registered' :
             ReadVersion(ti[1], ti[2])'.committed.max_committed_epoch >=
                IF ti \in Registered
                   THEN ReadVersion(ti[1], ti[2]).committed.max_committed_epoch
                   ELSE pinned_version.max_committed_epoch]_vars

\* A state of C1's case: two commits were observed as version updates while a
\* read version is registered, which has followed them.
C1_Witness ==
    /\ pinned_version.max_committed_epoch = MaxEpoch
    /\ pinned_version.id = MaxVersion
    /\ \E ti \in Registered :
          ReadVersion(ti[1], ti[2]).committed.max_committed_epoch = MaxEpoch

\* C2: a SyncEpoch request on an epoch sealed as checkpoint never gets two
\* replies, and it gets one as long as the event loop keeps running: a request
\* that is pending is answered, unless the loop ends first (Shutdown, or a panic
\* of the handler), which drops the sender without a reply.
C2_OneReplyWhileRunning ==
    /\ [](\A r \in 1..Len(requests) : Len(requests[r].replies) <= 1)
    /\ \A r \in ReqIds :
          (Len(requests) >= r)
             ~> (\/ Len(requests) >= r /\ Len(requests[r].replies) = 1
                 \/ pc \in {"shutdown", "panic"})

\* A state of C2's case: a request has been answered with the result of its
\* sync and another one with an error, each once.
C2_Witness ==
    /\ Len(requests) = MaxReq
    /\ \E r \in 1..Len(requests) : requests[r].replies = <<OkReply({1}, BatchSize)>>
    /\ \E r \in 1..Len(requests) :
          /\ Len(requests[r].replies) = 1
          /\ requests[r].replies[1].kind # "ok"

\* C2 as stated, read at the end of the loop: once the loop has exited on
\* Shutdown, every request it processed has exactly one reply.
C2_Original ==
    pc = "shutdown" => \A r \in 1..Len(requests) : Len(requests[r].replies) = 1

\* Request b is the SyncEpoch(e) that found the sender of request a pending.
Overwrote(a, b) ==
    /\ a < b
    /\ b <= Len(requests)
    /\ requests[a].epoch = requests[b].epoch
    /\ requests[a].replies = <<ErrReply("overwritten")>>
    /\ \A x \in (a + 1)..(b - 1) : requests[x].epoch # requests[a].epoch

\* Request b receives its reply in the step.
GetsReply(b) ==
    /\ b <= Len(requests')
    /\ Len(requests'[b].replies) = 1
    /\ b <= Len(requests) => requests[b].replies = <<>>

\* C3: when SyncEpoch(e) with sender B is processed while the sender A of an
\* earlier SyncEpoch(e) is pending, A receives "overwritten" in that step and
\* never anything else; what B receives is the result of the sync of e (Ok with
\* the SSTs and the size of the synced record, or "failed" for a failed record),
\* unless a Clear answers it "cleared" or a later SyncEpoch(e) overwrites it in
\* turn; and B receives a reply as long as the loop keeps running.
C3_OverwrittenThenResult ==
    /\ [][\A a \in 1..Len(requests) :
             (/\ Len(requests') = Len(requests) + 1
              /\ pending_sync_requests[requests'[Len(requests')].epoch] = a)
             => requests'[a].replies = <<ErrReply("overwritten")>>]_vars
    /\ [][\A a \in ReqIds, b \in ReqIds :
             (Overwrote(a, b)' /\ GetsReply(b)) =>
                LET reply == requests'[b].replies[1]
                    record == sync_uncommitted_data[requests'[b].epoch]
                IN  CASE reply.kind = "ok" ->
                            /\ record.stage = "Synced"
                            /\ reply = OkReply(record.ssts, record.size)
                      [] reply.kind = "failed" -> record.stage = "Failed"
                      [] reply.kind = "cleared" -> pc = "clearing" /\ pc' # "clearing"
                      [] reply.kind = "overwritten" ->
                            /\ Len(requests') = Len(requests) + 1
                            /\ requests'[Len(requests')].epoch = requests'[b].epoch
                      [] OTHER -> FALSE]_vars
    /\ \A a \in ReqIds, b \in ReqIds :
          Overwrote(a, b)
             ~> (\/ Overwrote(a, b) /\ Len(requests[b].replies) = 1
                 \/ pc \in {"shutdown", "panic"})

\* A state of C3's case: B has overwritten A and has received the Ok result of
\* the sync, with the SST of the memtable of the epoch.
C3_Witness ==
    \E a \in ReqIds, b \in ReqIds :
        /\ Overwrote(a, b)
        /\ requests[b].replies = <<OkReply({1}, BatchSize)>>

\* C3 as stated, in the form a finite run refutes: once B has overwritten A,
\* a reply that B holds is the result of the sync (Ok or "failed"), and B holds
\* one when the loop has exited.
C3_Original ==
    \A a \in ReqIds, b \in ReqIds :
        Overwrote(a, b) =>
            /\ requests[b].replies # <<>> => requests[b].replies[1].kind \in {"ok", "failed"}
            /\ pc = "shutdown" => requests[b].replies # <<>>

\* The writes to a key up to an epoch, among everything ingested so far.
WritesUpTo(key, epoch) == {x \in Created : imms[x].key = key /\ imms[x].epoch <= epoch}

\* C4: at every point of an ingest/seal/sync/commit sequence, get(key, E)
\* through the writer's read version returns the value of the write to key with
\* the largest epoch <= E among all writes ingested so far, and None when there
\* is no such write or when it is a delete.
C4_GetReturnsLatestWrite ==
    <<1, 1>> \in Registered =>
        \A key \in Keys, E \in Epochs :
            get(1, 1, key, E) =
                IF WritesUpTo(key, E) = {} THEN NoValue
                ELSE Value(Newest(WritesUpTo(key, E)))

\* A state of C4's case: the put of epoch 1 is read from the committed version,
\* the delete of epoch 2 from an unsynced memtable of the staging.
C4_Witness ==
    /\ <<1, 1>> \in Registered
    /\ Len(imms) = 2
    /\ imms[1].epoch = 1 /\ ~imms[1].del
    /\ imms[2].epoch = 2 /\ imms[2].del
    /\ ReadVersion(1, 1).staging = {2}
    /\ 1 \in ReadVersion(1, 1).committed.data
    /\ get(1, 1, 1, 1) = 1
    /\ get(1, 1, 1, 2) = NoValue

\* The write x is visible to its writer: in the staging of the instance, or in
\* the committed version the instance holds.
InStaging(x) == x \in ReadVersion(1, imms[x].key).staging

InCommitted(x) ==
    /\ x \in ReadVersion(1, imms[x].key).committed.data
    /\ imms[x].epoch <= ReadVersion(1, imms[x].key).committed.max_committed_epoch

\* C5: in no reachable state, between SealEpoch, SyncEpoch, the end of an upload
\* and a VersionUpdate, is a write absent from both the staging and the
\* committed version of its writer; a write leaves the staging only in the step
\* that installs a committed version holding it, with max_committed_epoch >= its
\* epoch; and no such step changes the result of a read at any epoch (only a new
\* write of an epoch <= E changes get(key, E)).
C5_WriteNeverInvisible ==
    /\ [](\A x \in Created :
             <<1, imms[x].key>> \in Registered => InStaging(x) \/ InCommitted(x))
    /\ [][\A x \in Created :
             (InStaging(x) /\ ~InStaging(x)') =>
                (InCommitted(x)' /\ pinned_version' # pinned_version)]_vars
    /\ [][\A key \in Keys, E \in Epochs :
             (<<1, 1>> \in Registered /\ get(1, 1, key, E)' # get(1, 1, key, E)) =>
                /\ Len(imms') = Len(imms) + 1
                /\ imms'[Len(imms')].key = key
                /\ imms'[Len(imms')].epoch <= E]_vars

\* A state of C5's case: a write was synced and committed and the version
\* update has moved it from the staging to the committed version, while a later
\* write is still in the staging.
C5_Witness ==
    /\ Len(imms) = 2
    /\ ~InStaging(1) /\ InCommitted(1)
    /\ InStaging(2) /\ ~InCommitted(2)
    /\ sync_uncommitted_data[imms[2].epoch].stage = "Syncing"

\* C6: once the commit of e has been observed as a version update, the staging
\* of an instance holds nothing of an epoch <= e, while the memtables it
\* ingested at later epochs are still there; when every ingested epoch is
\* committed the staging is empty.
C6_StagingAfterCommit ==
    \A ti \in Registered :
        LET staging == ReadVersion(ti[1], ti[2]).staging
            e == pinned_version.max_committed_epoch
        IN  /\ \A x \in staging : imms[x].epoch > e
            /\ \A x \in Created : (imms[x].key = ti[2] /\ imms[x].epoch > e) => x \in staging
            /\ (\A x \in Created : imms[x].epoch <= e) => staging = {}

\* A state of C6's case (test_state_store_sync): two batches at epochs 1 and 2,
\* epoch 1 synced and committed, and the staging holds the one memtable of
\* epoch 2.
C6_Witness ==
    /\ Len(imms) = 2
    /\ imms[1].epoch = 1 /\ imms[2].epoch = 2
    /\ HasOkReply(1)
    /\ pinned_version.max_committed_epoch = 1
    /\ ReadVersion(1, 1).staging = {2}

\* C7: after a Clear has been handled (no memtable waiting in the channel), the
\* usage of the memory limiter is zero, whatever was unsynced, sealed, syncing,
\* synced or being flushed before.
C7_UsageZeroAfterClear ==
    [][(pc = "clearing" /\ pc' = "run" /\ in_channel = {}) => get_buffer_size' = 0]_vars

\* The flush tasks the step issues.
FlushStarted ==
    {i \in ImmIds : tasks[FlushTask(i)] # "running" /\ tasks'[FlushTask(i)] = "running"}

UsageBelowThreshold == ~need_more_flush_of(get_buffer_size, 0)

RecordCreated(e) ==
    sync_uncommitted_data[e].stage = "None" /\ sync_uncommitted_data'[e].stage # "None"

\* The step is a SyncEpoch(e) that the handler accepts: no panic and no error
\* reply at once.
SyncEpochAccepted(e) ==
    /\ Len(requests') = Len(requests) + 1
    /\ requests'[Len(requests')].epoch = e
    /\ requests'[Len(requests')].replies = <<>>
    /\ pc' = "run"

\* C9: an epoch gets a sync record (by an accepted SealEpoch(checkpoint=true), or
\* by a SyncEpoch on an epoch without record) only if it is strictly greater
\* than max_sync_epoch, which it then becomes; an accepted SyncEpoch(e) that
\* starts the sync task works on a record sealed before, whose epoch is at most
\* max_sync_epoch, or on the record it has just created.
C9_NewSyncEpochPastMax ==
    [][/\ max_sync_epoch' >= max_sync_epoch
       /\ \A e \in Epochs :
             /\ RecordCreated(e) => (e > max_sync_epoch /\ max_sync_epoch' = e)
             /\ (SyncEpochAccepted(e) /\ tasks'[SyncTask(e)] # tasks[SyncTask(e)]) =>
                   /\ sync_uncommitted_data'[e].stage = "Syncing"
                   /\ \/ sync_uncommitted_data[e].stage = "Sealed" /\ e <= max_sync_epoch
                      \/ RecordCreated(e)]_vars

\* A state of C9's case: epoch 1 was sealed as checkpoint, epoch 2 was sealed by
\* its SyncEpoch, and the SyncEpoch of epoch 1, below max_sync_epoch, was
\* accepted afterwards.
C9_Witness ==
    /\ max_sync_epoch = 2
    /\ Len(requests) = 2
    /\ requests[1].epoch = 2
    /\ requests[2].epoch = 1
    /\ sync_uncommitted_data[1].stage = "Syncing"
    /\ pc = "run"

\* C9 as stated: the epoch of an accepted SealEpoch(checkpoint=true), and of an
\* accepted SyncEpoch, is strictly greater than max_sync_epoch when the event is
\* processed.
C9_Original ==
    [][\A e \in Epochs :
          /\ (RecordCreated(e) /\ sync_uncommitted_data'[e].stage = "Sealed")
                => e > max_sync_epoch
          /\ SyncEpochAccepted(e) => e > max_sync_epoch]_vars

\* C10: a SyncEpoch(e) with e <= max_committed_epoch (get_prev_max_sync_epoch
\* returns none) is answered with the error at once and leaves no pending entry;
\* no handle is drained or re-attached, no record changes and no task is spawned.
C10_StaleSyncAnsweredAtOnce ==
    [][\A e \in Epochs :
          (/\ Len(requests') = Len(requests) + 1
           /\ requests'[Len(requests')].epoch = e
           /\ get_prev_max_sync_epoch(e) = -1)
          => /\ requests'[Len(requests')].replies = <<ErrReply("stale")>>
             /\ pending_sync_requests'[e] = 0
             /\ \A x \in Epochs \ {e} : pending_sync_requests'[x] = pending_sync_requests[x]
             /\ UNCHANGED <<upload_handle_manager, sync_uncommitted_data, shared_buffer,
                            max_sync_epoch, tasks, uploading, uploaded, pc>>]_vars

\* A state of C10's case: epoch 1 is committed and a SyncEpoch(1) processed
\* afterwards holds the error as its only reply.
C10_Witness ==
    /\ pinned_version.max_committed_epoch >= 1
    /\ Len(requests) = 2
    /\ requests[2].epoch = 1
    /\ requests[2].replies = <<ErrReply("stale")>>
    /\ pending_sync_requests[1] = 0

\* The deltas of a payload follow each other from the pinned version on.
DeltasChain(deltas) ==
    \A n \in 1..Len(deltas) :
        deltas[n].prev_id = IF n = 1 THEN pinned_version.id ELSE deltas[n - 1].id

\* The version the deltas of a payload lead to, taken in order.
DeltasResult(deltas) ==
    IF deltas = <<>> THEN pinned_version
    ELSE [id |-> deltas[Len(deltas)].id,
          max_committed_epoch |-> deltas[Len(deltas)].max_committed_epoch,
          data |-> pinned_version.data \cup UNION {deltas[n].added : n \in 1..Len(deltas)}]

\* C11: a VersionUpdate with deltas installs the version the deltas lead to,
\* applied in order from the pinned version; when a delta's prev_id is not the id
\* of the version built so far, the handler aborts and the pinned version, the
\* read versions and the value of the version watch are left as they were.
C11_DeltaMismatchIsFatal ==
    [][\A payload \in Payloads :
          (~payload.full /\ handle_version_update(payload)) =>
             IF DeltasChain(payload.deltas)
                THEN /\ pinned_version' = DeltasResult(payload.deltas)
                     /\ pc' = "run"
                ELSE /\ pc' = "panic"
                     /\ UNCHANGED <<pinned_version, read_version_mapping,
                                    version_update_notifier>>]_vars

\* A state of C11's case: the handler has aborted on a version update whose
\* deltas do not start at its pinned version, which is older than the latest
\* version (no seal, no sync and no upload has happened, so that nothing else
\* can have aborted it).
C11_Witness ==
    /\ pc = "panic"
    /\ max_sync_epoch = 0
    /\ requests = <<>>
    /\ pinned_version.id = 2
    /\ Len(meta) = MaxVersion
    /\ version_update_notifier.state = pinned_version.max_committed_epoch

C13_DestroyRemovesOrPanics ==
    \A t \in TableIds, i \in InstanceIds :
        pc = "run" =>
           IF <<t, i>> \in Registered
              THEN ~ENABLED (/\ DestroyHummockInstance(t, i)
                             /\ read_version_mapping'[t].instances[i].registered)
              ELSE ~ENABLED (DestroyHummockInstance(t, i) /\ pc' # "panic")

\* C14: the step that registers (t, i) leaves at read_version_mapping[t][i] a
\* fresh read version, with the handler's pinned version of that moment as its
\* committed version and an empty staging; and from then on the instance gets
\* every version update the handler processes: the committed version of every
\* registered read version is the handler's pinned version.
C14_RegisteredFollowsPinned ==
    /\ [][\A t \in TableIds, i \in InstanceIds :
             (<<t, i>> \notin Registered /\ <<t, i>> \in Registered') =>
                /\ ReadVersion(t, i)'.committed = pinned_version
                /\ ReadVersion(t, i)'.staging = {}
                /\ pinned_version' = pinned_version]_vars
    /\ [](\A ti \in Registered : ReadVersion(ti[1], ti[2]).committed = pinned_version)

\* A state of C14's case: instance 2 was registered after the commit of epoch 1
\* had been observed, and both read versions have followed the later version
\* updates up to the latest version.
C14_Witness ==
    /\ Registered = {<<1, 1>>, <<1, 2>>}
    /\ ReadVersion(1, 1).staging # {}
    /\ ReadVersion(1, 2).staging = {}
    /\ ReadVersion(1, 2).committed.id = MaxVersion
    /\ ReadVersion(1, 2).committed.max_committed_epoch = 1
    /\ pc = "run"

\* The local version, the upload handles and the pending sync requests are as a
\* Clear leaves them.
Cleared ==
    /\ \A e \in Epochs : upload_handle_manager[e] = {}
    /\ clear_handles = {}
    /\ \A e \in Epochs : pending_sync_requests[e] = 0
    /\ shared_buffer = {}
    /\ \A e \in Epochs : sync_uncommitted_data[e] = NoRecord

C17_NothingAfterShutdown ==
    [][pc = "shutdown" =>
          /\ UNCHANGED <<pc, in_channel, shared_buffer, max_sync_epoch,
                         upload_handle_manager, clear_handles, pending_sync_requests,
                         requests, read_version_mapping, pinned_version,
                         version_update_notifier, seal_epoch>>
          /\ \A t \in TaskIds : tasks'[t] # tasks[t] => tasks[t] = "running"]_vars

\* A state of C17's case: the loop has exited while a memtable waited in the
\* channel and a sync request was pending; the sync task has ended since, and
\* its finished epoch is not handled.
C17_Witness ==
    /\ pc = "shutdown"
    /\ in_channel # {}
    /\ \E e \in Epochs :
          /\ next_finished_epoch(e)
          /\ sync_uncommitted_data[e].stage = "Synced"
          /\ pending_sync_requests[e] # 0
          /\ requests[pending_sync_requests[e]].replies = <<>>

(***************************************************************************)
(* Iterators.                                                              *)
(***************************************************************************)
Ranges == {r \in Keys \X Keys : r[1] <= r[2]}

\* The time of an epoch in milliseconds, and how much older than base it is.
PhysicalTime(e) == EpochOf(e) \div 2^EpochShift
OlderBy(e, base) == PhysicalTime(base) - PhysicalTime(e)

\* The pairs of an iterator without retention whose entry passes `shown`.
ShownOf(pairs, read_epoch, retention_seconds, shown(_, _, _)) ==
    LET Test(pair) == shown(imms[pair[2]].epoch, read_epoch, retention_seconds)
    IN  SelectSeq(pairs, Test)

FilteredFromSecondsOn(e, read_epoch, retention_seconds) ==
    \/ retention_seconds = NoRetention
    \/ OlderBy(e, read_epoch) < 1000 * retention_seconds

FilteredBeyondSeconds(e, read_epoch, retention_seconds) ==
    \/ retention_seconds = NoRetention
    \/ OlderBy(e, read_epoch) <= 1000 * retention_seconds

\* C18 (amended): an iterator with retention_seconds = s yields what the
\* iterator without retention yields less exactly the entries whose epoch is
\* s seconds or more older than the read epoch (an entry exactly s seconds
\* older is filtered too); without retention nothing is filtered.  This holds
\* in every state, before the sync and after the sync and the commit.
C18_RetentionFiltersFromSecondsOn ==
    \A ti \in Registered, r \in Ranges, read_epoch \in Epochs, retention_seconds \in Retentions :
        iter(ti[1], ti[2], r[1], r[2], read_epoch, retention_seconds)
           = ShownOf(iter(ti[1], ti[2], r[1], r[2], read_epoch, NoRetention),
                     read_epoch, retention_seconds, FilteredFromSecondsOn)

\* Instance 1 reads at epoch 2 its own staged key of epoch 2 and the committed
\* key of instance 2 of epoch 1: with a retention of one second only the
\* first is left.
C18_Witness ==
    /\ <<1, 1>> \in Registered
    /\ ReadVersion(1, 1).staging # {}
    /\ Len(iter(1, 1, 1, 2, 2, NoRetention)) = 2
    /\ Len(iter(1, 1, 1, 2, 2, 1)) = 1
    /\ iter(1, 1, 1, 2, 2, 2) = iter(1, 1, 1, 2, 2, NoRetention)

\* C18 as stated: only the entries more than s seconds older are filtered.
C18_Original ==
    \A ti \in Registered, r \in Ranges, read_epoch \in Epochs, retention_seconds \in Retentions :
        iter(ti[1], ti[2], r[1], r[2], read_epoch, retention_seconds)
           = ShownOf(iter(ti[1], ti[2], r[1], r[2], read_epoch, NoRetention),
                     read_epoch, retention_seconds, FilteredBeyondSeconds)

\* C19: an iterator over a range at epoch E yields the keys of the range in
\* strictly ascending order, hence each at most once, each with the value get
\* returns for it at E, and leaves out exactly the keys for which get returns
\* nothing.
C19_IterAgreesWithGet ==
    \A ti \in Registered, r \in Ranges, read_epoch \in Epochs :
        LET pairs == iter(ti[1], ti[2], r[1], r[2], read_epoch, NoRetention) IN
        /\ \A n \in 1..Len(pairs) :
              /\ pairs[n][1] \in r[1]..r[2]
              /\ n > 1 => pairs[n - 1][1] < pairs[n][1]
              /\ pairs[n][2] # NoValue
              /\ pairs[n][2] = get(ti[1], ti[2], pairs[n][1], read_epoch)
        /\ \A key \in r[1]..r[2] :
              get(ti[1], ti[2], key, read_epoch) # NoValue
                 => \E n \in 1..Len(pairs) : pairs[n][1] = key

\* Instance 2 reads at epoch 2 the committed key of instance 1 and its own
\* staged key: two pairs in key order, and one pair over the range of key 2.
C19_Witness ==
    /\ <<1, 2>> \in Registered
    /\ ReadVersion(1, 2).staging # {}
    /\ ReadVersion(1, 2).committed.data # {}
    /\ Len(iter(1, 2, 1, 2, 2, NoRetention)) = 2
    /\ Len(iter(1, 2, 2, 2, 2, NoRetention)) = 1

\* C20: a reply that is neither "overwritten", "stale" nor "cleared" is the
\* result of the sync of the request's epoch: a sync upload task that succeeds
\* leaves the record Synced and one that fails leaves it Failed; the reply is
\* Ok exactly when the record is Synced, and then carries the SSTs and the size
\* of the record, and it is "failed" exactly when the record is Failed.
C20_ResultFollowsSyncRecord ==
    /\ [][\A e \in Epochs, ok \in BOOLEAN :
             (SyncTaskDone(e, ok) /\ sync_uncommitted_data[e].stage = "Syncing")
                => sync_uncommitted_data'[e].stage = IF ok THEN "Synced" ELSE "Failed"]_vars
    /\ [][\A r \in 1..Len(requests) :
             LET replies == requests'[r].replies
                 reply == replies[Len(replies)]
                 record == sync_uncommitted_data[requests[r].epoch]
             IN  (/\ Len(replies) = Len(requests[r].replies) + 1
                  /\ reply.kind \notin {"overwritten", "stale", "cleared"})
                 => /\ reply.kind \in {"ok", "failed"}
                    /\ pending_sync_requests[requests[r].epoch] = r
                    /\ sync_uncommitted_data' = sync_uncommitted_data
                    /\ reply.kind = "ok" <=> record.stage = "Synced"
                    /\ reply.kind = "failed" <=> record.stage = "Failed"
                    /\ reply.kind = "ok" =>
                          /\ reply.uncommitted_ssts = record.ssts
                          /\ reply.sync_size = record.size]_vars

\* The sync of epoch 1 failed and the sync of epoch 2 succeeded: the first
\* request holds "failed", the second Ok with the SST and the size of epoch 2.
C20_Witness ==
    /\ Len(requests) = 2
    /\ requests[1].epoch = 1
    /\ requests[1].replies = <<ErrReply("failed")>>
    /\ sync_uncommitted_data[1].stage = "Failed"
    /\ requests[2].epoch = 2
    /\ requests[2].replies = <<sync_result(sync_uncommitted_data[2])>>
    /\ sync_uncommitted_data[2].stage = "Synced"
    /\ sync_uncommitted_data[2].ssts # {}

(***************************************************************************)
(* Flush handles, sync records and sync tasks.                             *)
(***************************************************************************)
\* The epochs of the SyncEpoch events processed so far.
SyncEpochProcessed(e) == \E r \in 1..Len(requests) : requests[r].epoch = e

\* C21: once SyncEpoch(e) has been processed no flush task is started for a
\* memtable of an epoch <= e, and the flush handles that were in flight for the
\* epochs in (prev, e] when it was processed are attached to e and to no other
\* epoch.
C21_NoFlushBehindSync ==
    /\ [][\A i \in ImmIds :
             (tasks[FlushTask(i)] # "running" /\ tasks'[FlushTask(i)] = "running")
                => \A e \in Epochs : SyncEpochProcessed(e) => imms[i].epoch > e]_vars
    /\ [][\A e \in Epochs :
             (handle_sync_epoch(e) /\ get_prev_max_sync_epoch(e) # -1) =>
                \A x \in drain_range(get_prev_max_sync_epoch(e), e) :
                   \A t \in upload_handle_manager[x] :
                      /\ t \in upload_handle_manager'[e]
                      /\ \A y \in Epochs \ {e} : t \notin upload_handle_manager'[y]]_vars

\* The handling of SyncEpoch(e) gets to start_syncing(e): the sync is not stale
\* and no flush handle was drained.
SyncEpochStartsSyncing(e) ==
    /\ handle_sync_epoch(e)
    /\ get_prev_max_sync_epoch(e) # -1
    /\ drained_handles(upload_handle_manager,
                       drain_range(get_prev_max_sync_epoch(e), e)) = {}

\* C22: start_syncing is invoked at most once per sync record, on a record that
\* has not started syncing, and the sync upload task of an epoch is spawned at
\* most once per record: by the step that takes the record to Syncing, while no
\* sync task of the epoch exists.
C22_OneSyncPerRecord ==
    /\ [][\A e \in Epochs :
             SyncEpochStartsSyncing(e) =>
                sync_uncommitted_data[e].stage \in {"None", "Sealed"}]_vars
    /\ [][\A e \in Epochs :
             (tasks'[SyncTask(e)] = "running" /\ tasks[SyncTask(e)] # "running") =>
                /\ tasks[SyncTask(e)] = "none"
                /\ sync_uncommitted_data[e].stage \in {"None", "Sealed"}
                /\ sync_uncommitted_data'[e].stage = "Syncing"]_vars

StartsSyncing(e) ==
    /\ sync_uncommitted_data[e].stage # "Syncing"
    /\ sync_uncommitted_data'[e].stage = "Syncing"

\* C24: the payload of start_syncing(e) is every memtable of an epoch <= e that
\* the local version holds, that is not uploaded and that no other record
\* holds, the memtables of the epochs sealed without checkpoint included; after
\* it no memtable of an epoch <= e is left unsynced, and the payload shares no
\* memtable with another record.
C24_PayloadTakesAllUnsynced ==
    [][\A e \in Epochs :
          StartsSyncing(e) =>
             LET payload == SyncPayload(sync_uncommitted_data'[e])
                 others == UNION {sync_uncommitted_data[x].imms : x \in Epochs \ {e}}
             IN  /\ payload = {i \in Created \ (in_channel \cup uploaded \cup others) :
                                  InLocalVersion(i) /\ imms[i].epoch <= e}
                 /\ sync_uncommitted_data'[e].size = BatchSize * Cardinality(payload)
                 /\ \A i \in shared_buffer' : imms[i].epoch > e
                 /\ \A x \in Epochs \ {e} :
                       sync_uncommitted_data'[x].imms \cap sync_uncommitted_data'[e].imms = {}]_vars

\* The sync of epoch 2 has started with the memtables of epoch 1 (never sealed
\* as checkpoint) and of epoch 2 in its payload.
C24_Witness ==
    /\ sync_uncommitted_data[2].stage = "Syncing"
    /\ sync_uncommitted_data[1].stage = "None"
    /\ sync_uncommitted_data[2].size = 2 * BatchSize
    /\ {imms[i].epoch : i \in sync_uncommitted_data[2].imms} = {1, 2}
    /\ shared_buffer = {}

\* The handles that the handling of SyncEpoch(e) drains.
DrainedBySyncEpoch(e) ==
    drained_handles(upload_handle_manager, drain_range(get_prev_max_sync_epoch(e), e))

\* The sync upload task of e is spawned by the step.
SpawnsSyncTask(e) == tasks[SyncTask(e)] # "running" /\ tasks'[SyncTask(e)] = "running"

C26_NeverSyncingAtCompletion ==
    \A e \in Epochs :
        (pc = "run" /\ next_finished_epoch(e) /\ e <= max_sync_epoch)
           => sync_uncommitted_data[e].stage # "Syncing"

\* Two flush handles, completed one after the other, are attached to a sealed
\* epoch with a pending request, and the completion of the epoch is due.
C26_Witness ==
    \E e \in Epochs :
        /\ pc = "run"
        /\ next_finished_epoch(e)
        /\ e <= max_sync_epoch
        /\ Cardinality(upload_handle_manager[e]) = 2
        /\ sync_uncommitted_data[e].stage = "Sealed"
        /\ pending_sync_requests[e] # 0

\* C27: a handle leaves the epoch it is attached to only when the completion of
\* the epoch is emitted, all the handles of the epoch having completed, or when
\* a SyncEpoch or a Clear drains it; an emission leaves none of the emitted
\* handles attached, so that the epoch is emitted again only for handles added
\* since; and the epochs a SyncEpoch(e) drained, e apart, are left without
\* handle, hence not emitted for the handles drained from them, each handle
\* being attached to one epoch at most.
C27_EmittedOncePerHandles ==
    /\ [](\A x \in Epochs, y \in Epochs :
            x # y => upload_handle_manager[x] \cap upload_handle_manager[y] = {})
    /\ [][\A e \in Epochs : \A t \in upload_handle_manager[e] :
             t \notin upload_handle_manager'[e] =>
                \/ /\ handle_epoch_finished(e)
                   /\ \A u \in upload_handle_manager[e] : tasks[u] = "done"
                   /\ upload_handle_manager'[e] \cap upload_handle_manager[e] = {}
                   /\ ~next_finished_epoch(e)'
                \/ \E s \in Epochs \ {e} :
                      /\ handle_sync_epoch(s)
                      /\ e \in drain_range(get_prev_max_sync_epoch(s), s)
                      /\ t \in upload_handle_manager'[s]
                      /\ upload_handle_manager'[e] = {}
                \/ /\ pc = "run" /\ pc' = "clearing"
                   /\ t \in clear_handles']_vars

\* The flush handle of a memtable of epoch 1 was drained by SyncEpoch(2) and
\* has completed: the completion of epoch 2 is due, epoch 1 has no handle.
C27_Witness ==
    /\ pc = "run"
    /\ next_finished_epoch(2)
    /\ upload_handle_manager[1] = {}
    /\ \E i \in Created : imms[i].epoch = 1 /\ FlushTask(i) \in upload_handle_manager[2]

\* C28: the handling of the completion of an epoch e > max_sync_epoch changes
\* nothing: no record is created or changed, no task is spawned, no handle is
\* added, no reply is sent and the loop goes on.
C28_UnsealedCompletionIsNoOp ==
    [][\A e \in Epochs :
          (handle_epoch_finished(e) /\ e > max_sync_epoch) =>
             /\ UNCHANGED <<pc, shared_buffer, sync_uncommitted_data, max_sync_epoch,
                            pending_sync_requests, requests, uploading, uploaded>>
             /\ \A t \in TaskIds : tasks'[t] = "running" => tasks[t] = "running"
             /\ \A x \in Epochs : upload_handle_manager'[x] \subseteq upload_handle_manager[x]]_vars

\* A flush of a memtable of an epoch that was never sealed as checkpoint has
\* completed and its completion has been handled: the memtable is uploaded and
\* still unsynced, no handle is left and nothing else has happened.
C28_Witness ==
    /\ pc = "run"
    /\ max_sync_epoch = 0
    /\ requests = <<>>
    /\ \A e \in Epochs : upload_handle_manager[e] = {}
    /\ \E i \in shared_buffer \cap uploaded : tasks[FlushTask(i)] = "none"

\* C29: the handling of a version update leaves every read version of the
\* mapping, of every table and instance, with the handler's new pinned version
\* and registers or removes none; hence in every state between two events the
\* committed version of every registered read version is the handler's pinned
\* version, whatever the order of the Register, Destroy and VersionUpdate
\* events.
C29_FanOutToAllReadVersions ==
    /\ [][\A payload \in Payloads :
             handle_version_update(payload) =>
                /\ Registered' = Registered
                /\ \A t \in TableIds, i \in InstanceIds :
                      <<t, i>> \in Registered =>
                         ReadVersion(t, i)'.committed = pinned_version']_vars
    /\ [](\A t \in TableIds, i \in InstanceIds :
            <<t, i>> \in Registered => ReadVersion(t, i).committed = pinned_version)

\* Instances of both tables are registered, one was destroyed, and they hold
\* the third version, which commits epoch 1.
C29_Witness ==
    /\ pc = "run"
    /\ Registered = {<<1, 1>>, <<2, 2>>}
    /\ read_version_mapping[2].present
    /\ pinned_version.id = MaxVersion
    /\ pinned_version.max_committed_epoch = 1
    /\ ReadVersion(2, 2).committed = pinned_version

\* C30: the handling of a version update notifies the watchers of the version
\* exactly when the max_committed_epoch of the new pinned version is strictly
\* greater than that of the previous one, and the watch value is then the new
\* max_committed_epoch; otherwise neither the watch value nor its version
\* changes.  Nothing else touches the watch, and its value never decreases.
C30_NotifiedIffEpochGrows ==
    /\ [][\A payload \in Payloads :
             handle_version_update(payload) =>
                IF pinned_version'.max_committed_epoch > pinned_version.max_committed_epoch
                   THEN /\ version_update_notifier'.state = pinned_version'.max_committed_epoch
                        /\ version_update_notifier'.version = version_update_notifier.version + 1
                   ELSE version_update_notifier' = version_update_notifier]_vars
    /\ [][/\ version_update_notifier'.state >= version_update_notifier.state
          /\ version_update_notifier' # version_update_notifier
                => \E payload \in Payloads : handle_version_update(payload)]_vars

\* Three versions have reached the handler, the last two with epoch 1
\* committed: the watchers were notified once, of epoch 1.
C30_Witness ==
    /\ pc = "run"
    /\ pinned_version.id = MaxVersion
    /\ meta[2].max_committed_epoch = 1
    /\ version_update_notifier = [state |-> 1, version |-> 1]

(***************************************************************************)
(* Version updates and the local version.                                  *)
(***************************************************************************)
\* C31: when a version update has been handled and the max_committed_epoch of
\* the new pinned version is c, the local version holds no record of a sync
\* epoch <= c, and every record of a sync epoch > c and every unsynced memtable
\* of an epoch > c is as it was before, uploaded or not.
C31_CommittedRecordsEvicted ==
    [][\A payload \in Payloads :
          (handle_version_update(payload) /\ pc' = "run") =>
             LET c == pinned_version'.max_committed_epoch IN
             /\ \A e \in Epochs : e <= c => sync_uncommitted_data'[e] = NoRecord
             /\ \A e \in Epochs :
                   e > c =>
                      /\ sync_uncommitted_data'[e] = sync_uncommitted_data[e]
                      /\ sync_uncommitted_data[e].imms \cap uploaded'
                            = sync_uncommitted_data[e].imms \cap uploaded
             /\ \A i \in ImmIds :
                   (i \in shared_buffer /\ imms[i].epoch > c) =>
                      /\ i \in shared_buffer'
                      /\ i \in uploaded' <=> i \in uploaded
             /\ shared_buffer' \subseteq shared_buffer]_vars

\* Epoch 1 was synced and committed and the version update has dropped its
\* record, while the record of epoch 2, sealed with its memtable, is in place.
C31_Witness ==
    /\ pc = "run"
    /\ pinned_version.max_committed_epoch = 1
    /\ HasOkReply(1)
    /\ sync_uncommitted_data[1] = NoRecord
    /\ sync_uncommitted_data[2].stage = "Sealed"
    /\ sync_uncommitted_data[2].imms = {2}

\* C32: the handling of a SealEpoch(e, checkpoint = true) that seal_epoch
\* accepts (e is past max_sync_epoch) creates the record of e in stage Sealed,
\* moves every unsynced memtable of an epoch <= e into its payload and leaves
\* the memtables of the later epochs unsynced, and sets max_sync_epoch to e; it
\* spawns no upload task, attaches no handle and sends no reply.
C32_CheckpointSealCreatesRecord ==
    [][\A e \in Epochs :
          (HandleSealEpoch(e, TRUE) /\ e > max_sync_epoch) =>
             /\ sync_uncommitted_data[e] = NoRecord
             /\ sync_uncommitted_data'[e].stage = "Sealed"
             /\ sync_uncommitted_data'[e].imms = {i \in shared_buffer : imms[i].epoch <= e}
             /\ sync_uncommitted_data'[e].ssts = {}
             /\ \A x \in Epochs \ {e} : sync_uncommitted_data'[x] = sync_uncommitted_data[x]
             /\ shared_buffer' = {i \in shared_buffer : imms[i].epoch > e}
             /\ max_sync_epoch' = e
             /\ UNCHANGED <<pc, tasks, upload_handle_manager, uploading, uploaded,
                            global_upload_task_size, pending_sync_requests, requests>>]_vars

\* Batches of epochs 1 and 2 are unsynced when SealEpoch(1, checkpoint) is
\* handled: the first is in the sealed record of epoch 1, the second is still
\* unsynced, and no task runs and no request exists.
C32_Witness ==
    /\ pc = "run"
    /\ max_sync_epoch = 1
    /\ seal_epoch = 1
    /\ sync_uncommitted_data[1] = [stage |-> "Sealed", imms |-> {1}, ssts |-> {}, size |-> 0]
    /\ shared_buffer = {2}
    /\ imms[2].epoch = 2
    /\ requests = <<>>
    /\ \A t \in TaskIds : tasks[t] = "none"

(***************************************************************************)
(* The await of handle_clear.                                              *)
(***************************************************************************)
\* C33: from the step that takes Clear until the step that signals its
\* notifier the loop takes no event and handles no finished epoch: what it owns
\* does not change, the events sent meanwhile stay in the channel, and only the
\* upload tasks go on.  No handle is attached to an epoch meanwhile, every
\* spawned task being among the handles the Clear awaits, and when the Clear
\* ends these tasks are joined and no epoch is due: none of them reaches
\* handle_epoch_finished.  The events of the channel are taken in the order in
\* which they were sent, and only while the loop runs.
C33_ClearSuspendsLoop ==
    /\ [](pc = "clearing" =>
            /\ \A e \in Epochs : upload_handle_manager[e] = {}
            /\ \A t \in TaskIds : tasks[t] # "none" => t \in clear_handles)
    /\ [][(pc = "clearing" /\ pc' = "clearing") =>
             /\ in_channel \subseteq in_channel'
             /\ Registered' = Registered
             /\ \A e \in Epochs :
                   \/ sync_uncommitted_data'[e] = sync_uncommitted_data[e]
                   \/ /\ SyncTaskDone(e, TRUE) \/ SyncTaskDone(e, FALSE)
                      /\ SyncTask(e) \in clear_handles
             /\ UNCHANGED <<shared_buffer, max_sync_epoch, upload_handle_manager,
                            clear_handles, pending_sync_requests, requests,
                            pinned_version, version_update_notifier, seal_epoch>>]_vars
    /\ [][(pc = "clearing" /\ pc' # "clearing") =>
             /\ in_channel' = in_channel
             /\ \A t \in clear_handles : tasks[t] = "done" /\ tasks'[t] = "none"
             /\ \A e \in Epochs : ~next_finished_epoch(e)']_vars
    /\ [][\A i \in in_channel :
             i \notin in_channel' => (pc = "run" /\ i = Min(in_channel, 0))]_vars

\* A Clear awaits the sync task of epoch 1, which has completed meanwhile, and
\* a memtable of epoch 2 waits in the channel: no epoch is due.
C33_Witness ==
    /\ pc = "clearing"
    /\ clear_handles = {SyncTask(1)}
    /\ tasks[SyncTask(1)] = "done"
    /\ sync_uncommitted_data[1].stage = "Synced"
    /\ pending_sync_requests[1] # 0
    /\ in_channel = {2}
    /\ \A e \in Epochs : ~next_finished_epoch(e)

(***************************************************************************)
(* The guards of the read version mapping and of the read versions.        *)
(***************************************************************************)
\* C34: the loop holds the write guard of read_version_mapping only while it
\* handles Register, Destroy or the fan-out of a VersionUpdate; it holds the
\* write guard of a read version only during that fan-out, inside the critical
\* section of the mapping; and it holds no guard at a suspension point, that is
\* when it waits in its select or in the await of handle_clear.
C34_GuardsOnlyInsideHandlers ==
    /\ handling.read_version_mapping_guard = "write" =>
          /\ pc = "handling"
          /\ handling.event \in {"Register", "Destroy", "VersionUpdate"}
    /\ handling.read_version_guard # {} =>
          /\ pc = "handling"
          /\ handling.event = "VersionUpdate"
          /\ handling.read_version_mapping_guard # "none"
          /\ handling.read_version_guard \subseteq Registered
    /\ pc \in {"run", "clearing"} =>
          /\ handling.read_version_mapping_guard = "none"
          /\ handling.read_version_guard = {}

\* The fan-out of a version update is under way: the loop holds the guard of
\* the mapping and the write guard of the read version (2, 2), after it has
\* updated the read version (1, 1).
C34_Witness ==
    /\ pc = "handling"
    /\ handling.event = "VersionUpdate"
    /\ handling.read_version_mapping_guard = "read"
    /\ handling.read_version_guard = {<<2, 2>>}
    /\ <<1, 1>> \in Registered
    /\ ReadVersion(1, 1).committed = pinned_version
    /\ ReadVersion(2, 2).committed # pinned_version

(***************************************************************************)
(* A SyncEpoch whose caller has dropped the receiver.                      *)
(***************************************************************************)
\* Request r is the pending request of its epoch and its receiver is dropped.
PendingDropped(r) ==
    /\ r <= Len(requests)
    /\ requests[r].rx_dropped
    /\ pending_sync_requests[requests[r].epoch] = r

\* C35: when the caller of SyncEpoch(e) drops the receiver before the reply,
\* nothing of the handler changes by it; the sync upload task of e runs to its
\* end and the record of e reaches Synced or Failed; the handling of the
\* completion then fails to send, which does not abort the handler and sends
\* nothing to anybody, and removes the pending entry of e.  (The loop may end
\* first, on Shutdown or on a panic.)
C35_DroppedReceiverStillSynced ==
    /\ [][\A r \in ReqIds :
             DropReceiver(r) =>
                UNCHANGED <<pc, tasks, sync_uncommitted_data, upload_handle_manager,
                            pending_sync_requests, shared_buffer>>]_vars
    /\ [][\A r \in ReqIds :
             (/\ PendingDropped(r)
              /\ handle_epoch_finished(requests[r].epoch)
              /\ sync_uncommitted_data[requests[r].epoch].stage \in {"Synced", "Failed"})
             => /\ pc' = "run"
                /\ pending_sync_requests'[requests[r].epoch] = 0
                /\ requests' = requests]_vars
    /\ \A r \in ReqIds :
          (PendingDropped(r) /\ tasks[SyncTask(requests[r].epoch)] = "running")
             ~> (\/ /\ r <= Len(requests)
                    /\ tasks[SyncTask(requests[r].epoch)] # "running"
                    /\ sync_uncommitted_data[requests[r].epoch].stage \in {"Synced", "Failed"}
                 \/ pc = "panic")
    /\ \A r \in ReqIds :
          PendingDropped(r)
             ~> (\/ r <= Len(requests) /\ pending_sync_requests[requests[r].epoch] # r
                 \/ pc \in {"shutdown", "panic"})

\* The only request, a SyncEpoch(1) whose receiver was dropped, has received
\* nothing; epoch 1 is synced all the same, the completion has been handled,
\* no entry is pending and the loop runs.
C35_Witness ==
    /\ pc = "run"
    /\ Len(requests) = 1
    /\ requests[1] = [epoch |-> 1, replies |-> <<>>, rx_dropped |-> TRUE]
    /\ sync_uncommitted_data[1].stage = "Synced"
    /\ sync_uncommitted_data[1].ssts # {}
    /\ tasks[SyncTask(1)] = "none"
    /\ pending_sync_requests[1] = 0

(***************************************************************************)
(* BufferTracker::need_more_flush as a function.                           *)
(***************************************************************************)
\* C36: for a capacity C, a usage u and an upload size f, f > u included,
\* need_more_flush answers true exactly when u - f > floor(4 * C / 5) over the
\* integers, that is when u > floor(4 * C / 5) + f; it answers false whenever
\* f >= u.
C36_NeedMoreFlushOverIntegers ==
    probe.called =>
        LET C == probe.capacity
            u == probe.global_buffer
            f == probe.global_upload_task_size
        IN  /\ probe.need_more_flush <=> (u - f > (4 * C) \div 5)
            /\ probe.need_more_flush <=> (u > (4 * C) \div 5 + f)
            /\ f >= u => ~probe.need_more_flush

\* need_more_flush has answered false for a usage above the threshold with an
\* upload size above the usage.
C36_Witness ==
    /\ probe.called
    /\ probe.global_buffer > probe.flush_threshold
    /\ probe.global_upload_task_size > probe.global_buffer
    /\ ~probe.need_more_flush

(***************************************************************************)
(* The panics of handle_epoch_finished.                                    *)
(***************************************************************************)
\* The completion of epoch e is due: the loop is at its select and every
\* handle attached to e has completed; e is not past max_sync_epoch.
CompletionDue(e) ==
    /\ pc = "run"
    /\ next_finished_epoch(e)
    /\ e <= max_sync_epoch

\* C37: whenever the completion of an epoch e <= max_sync_epoch is about to be
\* handled with the record of e in stage Synced or Failed, a sync request is
\* pending for e, so that send_sync_result finds a sender and does not panic.
C37_ResultHasRequester ==
    \A e \in Epochs :
        (CompletionDue(e) /\ sync_uncommitted_data[e].stage \in {"Synced", "Failed"})
           => pending_sync_requests[e] # 0

\* C38: whenever the completion of an epoch e <= max_sync_epoch is about to be
\* handled, the local version holds a sync record for e itself, so that the
\* lookup of handle_epoch_finished ("should find") succeeds.
C38_CompletedEpochHasRecord ==
    \A e \in Epochs : CompletionDue(e) => sync_uncommitted_data[e].stage # "None"

\* C39: whenever the loop is between two events, and so at the start of every
\* VersionUpdate handling, the value of the version-watch channel equals the
\* max_committed_epoch of the handler's pinned version: the assert_eq in the
\* closure of send_if_modified holds for every payload, raising or not.
C39_WatchValueIsPinnedEpoch ==
    pc = "run" => version_update_notifier.state = pinned_version.max_committed_epoch

\* A state of C39's case: a VersionUpdate that did not raise the committed epoch
\* has installed the second version (no notification was sent), and a version
\* with a larger committed epoch is waiting to be sent.
C39_Witness ==
    /\ pc = "run"
    /\ pinned_version.id = 2
    /\ pinned_version.max_committed_epoch = InitialVersion.max_committed_epoch
    /\ version_update_notifier = WatchChannel(InitialVersion.max_committed_epoch)
    /\ Len(meta) = MaxVersion
    /\ LatestVersion.max_committed_epoch > pinned_version.max_committed_epoch

\* C40: whenever the loop is between two events, every epoch with an entry in
\* pending_sync_requests has at least one upload handle attached to it in the
\* upload handle manager (so that its completion will be emitted); a later
\* SyncEpoch of a larger epoch does not take the handles of a pending epoch away.
C40_PendingEpochHasHandle ==
    pc = "run" =>
        \A e \in Epochs : pending_sync_requests[e] # 0 => upload_handle_manager[e] # {}

====
